---------------------------- MODULE Dashboard_proofs ----------------------------
(***************************************************************************)
(* The dashboard, for any entries, samples and terms: what its results say *)
(* of the pool and of the pioneers.                                        *)
(*                                                                         *)
(* The argument: a result is made of what had arrived when it was made,    *)
(* and what has arrived stays.  The rest are facts about the functions     *)
(* that make the results, from sums and sorting up: points and days only   *)
(* grow with further entries; a series that loses little at each step has  *)
(* lost little after all of them; and of one that once loses much the      *)
(* greatest drawdown shows it.                                             *)
(***************************************************************************)
EXTENDS Dashboard, FiniteSetTheorems, SequenceTheorems, WellFoundedInduction, TLAPS

-------------------------------------------------------------------------------
(* Arithmetic *)

\* A product of numbers is larger if one of them is.
LEMMA Product ==
  ASSUME NEW a \in Nat, NEW b \in Nat, NEW m \in Nat, a >= b
  PROVE  a * m >= b * m /\ m * a >= m * b
OBVIOUS

\* A factor that is not zero may be left out.
LEMMA Cancel ==
  ASSUME NEW a \in Nat, NEW b \in Nat, NEW m \in Nat \ {0}, a * m >= b * m
  PROVE  a >= b
OBVIOUS
\* A set of natural numbers has a least member.
LEMMA Least ==
  ASSUME NEW S \in SUBSET Nat, S # {}
  PROVE  \E i \in S : \A j \in S : i <= j
<1>1. PICK i \in S : \A j \in S : <<j, i>> \notin OpToRel(<, Nat)
  BY NatLessThanWellFounded, WFMin
<1>2. \A j \in S : ~(j < i)
  BY <1>1 DEF OpToRel
<1> QED BY <1>2

\* Induction up to n.
LEMMA UpTo ==
  ASSUME NEW n \in Nat, NEW S, 0 \in S, \A i \in 0 .. n - 1 : i \in S => i + 1 \in S
  PROVE  \A i \in 0 .. n : i \in S
<1> DEFINE bad == {i \in 0 .. n : i \notin S}
<1>1. SUFFICES ASSUME bad # {} PROVE FALSE
  OBVIOUS
<1>2. bad \in SUBSET Nat
  OBVIOUS
<1>3. PICK i \in bad : \A k \in bad : i <= k
  <2> HIDE DEF bad
  <2> QED BY <1>1, <1>2, Least
<1>4. i \in 0 .. n /\ i # 0 /\ i - 1 \in 0 .. n - 1 /\ i - 1 \notin bad
  BY <1>3
<1>5. i - 1 \in S /\ (i - 1) + 1 = i
  BY <1>4
<1> QED BY <1>3, <1>4, <1>5

\* A number and a step from each number to the next yield a sequence of numbers.
LEMMA Iteration ==
  ASSUME NEW n \in Nat, NEW a \in Nat, NEW step \in [(1 .. n) \X Nat -> Nat]
  PROVE  \E f \in [0 .. n -> Nat] : f[0] = a /\ \A i \in 1 .. n : f[i] = step[<<i, f[i - 1]>>]
<1> DEFINE Has(m) == \E f \in [0 .. m -> Nat] :
                       f[0] = a /\ \A i \in 1 .. m : f[i] = step[<<i, f[i - 1]>>]
           S == {m \in Nat : Has(m)}
<1>1. 0 \in S
  <2> DEFINE h == [i \in 0 .. 0 |-> a]
  <2>1. h \in [0 .. 0 -> Nat] /\ h[0] = a /\ 1 .. 0 = {}
    OBVIOUS
  <2> HIDE DEF h
  <2> QED BY <2>1
<1>2. ASSUME NEW m \in 0 .. n - 1, m \in S PROVE m + 1 \in S
  <2>1. PICK f \in [0 .. m -> Nat] : f[0] = a /\ \A i \in 1 .. m : f[i] = step[<<i, f[i - 1]>>]
    BY <1>2
  <2> DEFINE g == [i \in 0 .. m + 1 |-> IF i = m + 1 THEN step[<<m + 1, f[m]>>] ELSE f[i]]
  <2>2. step[<<m + 1, f[m]>>] \in Nat
    BY <2>1
  <2>3. g \in [0 .. m + 1 -> Nat]
    BY <2>1, <2>2
  <2>4. g[0] = a
    BY <2>1
  <2>5. ASSUME NEW i \in 1 .. m + 1 PROVE g[i] = step[<<i, g[i - 1]>>]
    <3>1. CASE i = m + 1
      <4>1. m \in 0 .. m + 1 /\ m # m + 1 /\ m + 1 \in 0 .. m + 1 /\ (m + 1) - 1 = m
        OBVIOUS
      <4>2. g[m] = f[m] /\ g[m + 1] = step[<<m + 1, f[m]>>]
        BY <4>1
      <4> HIDE DEF g
      <4> QED BY <3>1, <4>1, <4>2
    <3>2. CASE i # m + 1
      <4>1. i \in 1 .. m /\ g[i] = f[i] /\ g[i - 1] = f[i - 1]
        BY <3>2
      <4> QED BY <4>1, <2>1
    <3> QED BY <3>1, <3>2
  <2> HIDE DEF g
  <2>6. Has(m + 1)
    BY <2>3, <2>4, <2>5, Zenon
  <2> HIDE DEF Has
  <2> QED BY <2>6
<1>3. n \in S
  <2> HIDE DEF S
  <2>1. \A i \in 0 .. n : i \in S
    BY <1>1, <1>2, UpTo
  <2> QED BY <2>1
<1> QED BY <1>3

\* Sum(s) is the last of the sums of the beginnings of s.
LEMMA SumSteps ==
  ASSUME NEW s \in Seq(Nat)
  PROVE  \E f \in [0 .. Len(s) -> Nat] :
           f[0] = 0 /\ (\A i \in 1 .. Len(s) : f[i] = f[i - 1] + s[i]) /\ Sum(s) = f[Len(s)]
<1> DEFINE n == Len(s)
           step == [x \in (1 .. n) \X Nat |-> x[2] + s[x[1]]]
           Is(g) == g = [i \in 0 .. n |-> IF i = 0 THEN 0 ELSE g[i - 1] + s[i]]
           sum == CHOOSE g : Is(g)
<1>1. n \in Nat /\ \A i \in 1 .. n : s[i] \in Nat
  BY LenProperties, ElementOfSeq
<1> HIDE DEF n
<1>2. step \in [(1 .. n) \X Nat -> Nat]
  BY <1>1
<1>3. PICK f \in [0 .. n -> Nat] : f[0] = 0 /\ \A i \in 1 .. n : f[i] = step[<<i, f[i - 1]>>]
  <2> HIDE DEF step
  <2>1. 0 \in Nat
    OBVIOUS
  <2> QED BY <1>1, <1>2, <2>1, Iteration, Zenon
<1>4. \A i \in 1 .. n : f[i] = f[i - 1] + s[i]
  <2> SUFFICES ASSUME NEW i \in 1 .. n PROVE f[i] = f[i - 1] + s[i]
    OBVIOUS
  <2>1. f[i - 1] \in Nat
    BY <1>1, <1>3
  <2>2. step[<<i, f[i - 1]>>] = f[i - 1] + s[i]
    BY <2>1
  <2> QED BY <1>3, <2>2
<1>5. Is(f)
  <2>1. f = [i \in 0 .. n |-> f[i]]
    BY <1>3
  <2>2. \A i \in 0 .. n : f[i] = IF i = 0 THEN 0 ELSE f[i - 1] + s[i]
    BY <1>1, <1>3, <1>4
  <2> QED BY <2>1, <2>2
<1>6. Is(sum)
  <2> HIDE DEF Is
  <2> QED BY <1>5
<1>7. sum[n] = f[n]
  <2> HIDE DEF sum
  <2> DEFINE S == {i \in 0 .. n : sum[i] = f[i]}
  <2>1. \A j \in 0 .. n : sum[j] = IF j = 0 THEN 0 ELSE sum[j - 1] + s[j]
    BY <1>6, Zenon
  <2>2. 0 \in S
    BY <1>1, <1>3, <2>1
  <2>3. ASSUME NEW i \in 0 .. n - 1, i \in S PROVE i + 1 \in S
    BY <1>1, <1>4, <2>1, <2>3
  <2>4. n \in S
    <3> HIDE DEF S
    <3>1. \A i \in 0 .. n : i \in S
      BY <1>1, <2>2, <2>3, UpTo
    <3> QED BY <1>1, <3>1
  <2> QED BY <2>4
<1>8. Sum(s) = sum[n]
  BY DEF Sum, n
<1> QED BY <1>3, <1>4, <1>7, <1>8 DEF n

\* A sum is a natural number, and grows with its numbers and with further ones.
LEMMA SumGrows ==
  ASSUME NEW s \in Seq(Nat), NEW t \in Seq(Nat), Len(s) <= Len(t),
         \A i \in 1 .. Len(s) : s[i] <= t[i]
  PROVE  Sum(s) \in Nat /\ Sum(t) \in Nat /\ Sum(s) <= Sum(t)
<1> DEFINE m == Len(s)
           n == Len(t)
<1>1. m \in Nat /\ n \in Nat /\ (\A i \in 1 .. m : s[i] \in Nat) /\ (\A i \in 1 .. n : t[i] \in Nat)
  BY LenProperties, ElementOfSeq
<1>2. PICK f \in [0 .. m -> Nat] :
        f[0] = 0 /\ (\A i \in 1 .. m : f[i] = f[i - 1] + s[i]) /\ Sum(s) = f[m]
  BY SumSteps, Zenon
<1>3. PICK g \in [0 .. n -> Nat] :
        g[0] = 0 /\ (\A i \in 1 .. n : g[i] = g[i - 1] + t[i]) /\ Sum(t) = g[n]
  BY SumSteps, Zenon
<1>4. m <= n /\ \A i \in 1 .. m : s[i] <= t[i]
  OBVIOUS
<1> HIDE DEF m, n
<1> DEFINE S == {i \in 0 .. n : (IF i <= m THEN f[i] ELSE f[m]) <= g[i]}
<1>5. 0 \in S
  BY <1>1, <1>2, <1>3
<1>6. ASSUME NEW i \in 0 .. n - 1, i \in S PROVE i + 1 \in S
  <2>1. /\ i + 1 \in 1 .. n /\ g[i + 1] = g[i] + t[i + 1]
        /\ t[i + 1] \in Nat /\ g[i] \in Nat /\ g[i + 1] \in Nat
    BY <1>1, <1>3
  <2>2. CASE i + 1 <= m
    <3>1. i + 1 \in 1 .. m /\ (i + 1) - 1 = i /\ i \in 0 .. m /\ i <= m
      BY <1>1, <2>2
    <3>2. /\ f[i + 1] = f[i] + s[i + 1] /\ s[i + 1] <= t[i + 1]
          /\ f[i] \in Nat /\ s[i + 1] \in Nat
      BY <1>1, <1>2, <1>4, <3>1
    <3>3. f[i] <= g[i]
      BY <1>6, <3>1
    <3>4. f[i + 1] <= g[i + 1]
      <4>1. \A a, b, c, d \in Nat : a <= b /\ c <= d => a + c <= b + d
        OBVIOUS
      <4>2. f[i] + s[i + 1] <= g[i] + t[i + 1]
        BY <2>1, <3>2, <3>3, <4>1, Zenon
      <4> QED BY <2>1, <3>2, <4>2, Zenon
    <3> QED BY <2>1, <2>2, <3>4
  <2>3. CASE ~(i + 1 <= m)
    <3>1. f[m] <= g[i] /\ f[m] \in Nat
      <4>1. CASE i <= m
        <5>1. i = m
          BY <1>1, <2>3, <4>1
        <5> QED BY <1>1, <1>2, <1>6, <4>1, <5>1
      <4>2. CASE ~(i <= m)
        BY <1>1, <1>2, <1>6, <4>2
      <4> QED BY <4>1, <4>2
    <3> QED BY <2>1, <2>3, <3>1
  <2> QED BY <2>2, <2>3
<1>7. n \in S
  <2> HIDE DEF S
  <2>1. \A i \in 0 .. n : i \in S
    BY <1>1, <1>5, <1>6, UpTo
  <2> QED BY <1>1, <2>1
<1>8. f[m] <= g[n]
  <2>1. CASE n = m
    BY <1>7, <2>1
  <2>2. CASE n # m
    BY <1>1, <1>4, <1>7, <2>2
  <2> QED BY <2>1, <2>2
<1> QED BY <1>1, <1>2, <1>3, <1>8

\* The powers of base up to the n-th.
LEMMA PowerSteps ==
  ASSUME NEW base \in Nat, NEW n \in Nat
  PROVE  \E f \in [0 .. n -> Nat] :
           f[0] = 1 /\ (\A i \in 1 .. n : f[i] = base * f[i - 1]) /\ Power(base, n) = f[n]
<1> DEFINE step == [x \in (1 .. n) \X Nat |-> base * x[2]]
           Is(g) == g = [i \in 0 .. n |-> IF i = 0 THEN 1 ELSE base * g[i - 1]]
           power == CHOOSE g : Is(g)
<1>1. step \in [(1 .. n) \X Nat -> Nat]
  OBVIOUS
<1>2. PICK f \in [0 .. n -> Nat] : f[0] = 1 /\ \A i \in 1 .. n : f[i] = step[<<i, f[i - 1]>>]
  <2> HIDE DEF step
  <2>1. 1 \in Nat
    OBVIOUS
  <2> QED BY <1>1, <2>1, Iteration, Zenon
<1>3. \A i \in 1 .. n : f[i] = base * f[i - 1]
  <2> SUFFICES ASSUME NEW i \in 1 .. n PROVE f[i] = base * f[i - 1]
    OBVIOUS
  <2>1. <<i, f[i - 1]>> \in (1 .. n) \X Nat
    BY <1>2
  <2> QED BY <1>2, <2>1
<1>4. Is(f)
  <2>1. f = [i \in 0 .. n |-> f[i]]
    BY <1>2
  <2>2. \A i \in 0 .. n : f[i] = IF i = 0 THEN 1 ELSE base * f[i - 1]
    BY <1>2, <1>3
  <2> QED BY <2>1, <2>2
<1>5. Is(power)
  <2> HIDE DEF Is
  <2> QED BY <1>4
<1>6. power[n] = f[n]
  <2> HIDE DEF power
  <2> DEFINE S == {i \in 0 .. n : power[i] = f[i]}
  <2>1. \A j \in 0 .. n : power[j] = IF j = 0 THEN 1 ELSE base * power[j - 1]
    BY <1>5, Zenon
  <2>2. 0 \in S
    BY <1>2, <2>1
  <2>3. ASSUME NEW i \in 0 .. n - 1, i \in S PROVE i + 1 \in S
    <3>1. i + 1 \in 1 .. n /\ (i + 1) - 1 = i
      OBVIOUS
    <3>2. power[i + 1] = base * power[i] /\ f[i + 1] = base * f[i]
      BY <1>3, <2>1, <3>1
    <3> QED BY <2>3, <3>1, <3>2
  <2>4. n \in S
    <3> HIDE DEF S
    <3>1. \A i \in 0 .. n : i \in S
      BY <2>2, <2>3, UpTo
    <3> QED BY <3>1
  <2> QED BY <2>4
<1>7. Power(base, n) = power[n]
  BY DEF Power
<1> QED BY <1>2, <1>3, <1>6, <1>7
-------------------------------------------------------------------------------
(* Sorting *)

\* The elements of a finite set, each once, in the given order.
LEMMA InOrderIs ==
  ASSUME NEW S, IsFiniteSet(S), NEW R, TotalOrder(S, R)
  PROVE  LET n == Cardinality(S)
             s == InOrder(S, R)
         IN /\ n \in Nat /\ s \in [1 .. n -> S]
            /\ \A i, j \in 1 .. n : i < j => <<s[i], s[j]>> \in R
            /\ \A i, j \in 1 .. n : s[i] = s[j] => i = j
            /\ \A x \in S : \E i \in 1 .. n : s[i] = x
<1> DEFINE n == Cardinality(S)
           s == InOrder(S, R)
           Before(x) == {y \in S : <<y, x>> \in R}
           rank == [x \in S |-> Cardinality(Before(x))]
<1>1. n \in Nat
  BY FS_CardinalityType
<1>2. /\ \A x \in S : <<x, x>> \notin R
      /\ \A x, y \in S : x # y => <<x, y>> \in R \/ <<y, x>> \in R
      /\ \A x, y, z \in S : <<x, y>> \in R /\ <<y, z>> \in R => <<x, z>> \in R
  BY DEF TotalOrder
<1>3. ASSUME NEW x \in S
      PROVE  IsFiniteSet(Before(x)) /\ rank[x] = Cardinality(Before(x)) /\ rank[x] \in 0 .. n - 1
  <2>1. Before(x) \in SUBSET S /\ Before(x) # S
    BY <1>2
  <2>2. IsFiniteSet(Before(x)) /\ Cardinality(Before(x)) \in Nat
    BY <2>1, FS_Subset, FS_CardinalityType
  <2>3. Cardinality(Before(x)) <= n /\ (n = Cardinality(Before(x)) => S = Before(x))
    BY <2>1, FS_Subset
  <2> QED BY <1>1, <2>1, <2>2, <2>3
<1>4. ASSUME NEW x \in S, NEW y \in S, <<x, y>> \in R PROVE rank[x] < rank[y]
  <2>1. Before(x) \union {x} \in SUBSET Before(y)
    BY <1>2, <1>4
  <2>2. x \notin Before(x)
    BY <1>2
  <2>3. Cardinality(Before(x) \union {x}) = Cardinality(Before(x)) + 1
    BY <1>3, <2>2, FS_AddElement
  <2>4. Cardinality(Before(x) \union {x}) <= Cardinality(Before(y))
    BY <1>3, <2>1, FS_Subset
  <2> HIDE DEF Before
  <2>5. rank[x] = Cardinality(Before(x)) /\ rank[y] = Cardinality(Before(y))
        /\ rank[x] \in Nat /\ rank[y] \in Nat
    BY <1>1, <1>3
  <2> QED BY <2>3, <2>4, <2>5
<1> HIDE DEF rank
<1>5. \A x, y \in S : rank[x] = rank[y] => x = y
  <2> SUFFICES ASSUME NEW x \in S, NEW y \in S, x # y PROVE rank[x] # rank[y]
    OBVIOUS
  <2>1. rank[x] \in Nat /\ rank[y] \in Nat
    <3>1. rank[x] \in 0 .. n - 1 /\ rank[y] \in 0 .. n - 1
      BY <1>3, Zenon
    <3> HIDE DEF n, rank
    <3> QED BY <3>1
  <2>2. <<x, y>> \in R \/ <<y, x>> \in R
    BY <1>2
  <2>3. rank[x] < rank[y] \/ rank[y] < rank[x]
    BY <1>4, <2>2
  <2> HIDE DEF rank
  <2> QED BY <2>1, <2>3
<1>6. rank \in Surjection(S, 0 .. n - 1)
  <2>1. rank \in [S -> 0 .. n - 1]
    BY <1>3 DEF rank
  <2>2. rank \in Injection(S, 0 .. n - 1)
    BY <1>5, <2>1 DEF Injection, IsInjective
  <2>3. IsFiniteSet(0 .. n - 1) /\ Cardinality(0 .. n - 1) = n
    BY <1>1, FS_Interval
  <2> HIDE DEF n
  <2> QED BY <2>2, <2>3, FS_Injection DEF n
<1>7. ASSUME NEW i \in 1 .. n
      PROVE  s[i] \in S /\ rank[s[i]] = i - 1
  <2>1. s[i] = CHOOSE x \in S : Cardinality({y \in S : <<y, x>> \in R}) = i - 1
    BY DEF InOrder
  <2>2. i - 1 \in 0 .. n - 1
    BY <1>1
  <2>3. \E x \in S : rank[x] = i - 1
    BY <1>6, <2>2 DEF Surjection
  <2> HIDE DEF s
  <2>4. s[i] \in S /\ Cardinality({y \in S : <<y, s[i]>> \in R}) = i - 1
    BY <2>1, <2>3 DEF rank
  <2> QED BY <2>4 DEF rank
<1>8. s \in [1 .. n -> S]
  BY <1>7 DEF InOrder
<1> HIDE DEF s
<1>9. ASSUME NEW i \in 1 .. n, NEW j \in 1 .. n, i < j
      PROVE  <<s[i], s[j]>> \in R
  <2>1. rank[s[i]] < rank[s[j]] /\ ~(rank[s[j]] < rank[s[i]]) /\ s[i] # s[j]
    BY <1>1, <1>7, <1>9
  <2> QED BY <1>2, <1>4, <1>7, <2>1
<1>10. \A i, j \in 1 .. n : s[i] = s[j] => i = j
  <2> SUFFICES ASSUME NEW i \in 1 .. n, NEW j \in 1 .. n, s[i] = s[j] PROVE i = j
    OBVIOUS
  <2>1. i - 1 = j - 1
    BY <1>7
  <2> QED BY <1>1, <2>1
<1>11. ASSUME NEW x \in S PROVE \E i \in 1 .. n : s[i] = x
  <2>1. rank[x] \in 0 .. n - 1
    BY <1>3
  <2>2. rank[x] + 1 \in 1 .. n
    BY <1>1, <2>1
  <2>3. rank[s[rank[x] + 1]] = rank[x] /\ s[rank[x] + 1] \in S
    BY <1>1, <1>7, <2>1, <2>2
  <2> QED BY <1>5, <2>2, <2>3
<1> HIDE DEF n
<1> QED BY <1>1, <1>8, <1>9, <1>10, <1>11 DEF n, s
-------------------------------------------------------------------------------
(* Scores *)

\* The events one pioneer gets points for, one number for each entry.
PointsOf(es, p, role, m) ==
  [i \in DOMAIN es |-> IF Counts(es[i], p, m) /\ CLASS_ROLES[es[i].class] = role
                       THEN Points(es[i], m) ELSE 0]

\* A manifest that is not refused gives points, and no more than the ceilings where
\* it keeps the classes of the events.
LEMMA PointsBounded ==
  ASSUME NEW e \in Entries, NEW p, NEW m, compileManifest(m), Counts(e, p, m)
  PROVE  /\ Points(e, m) \in Nat
         /\ (m # NoManifest => m[e.action].class = e.class) => Points(e, m) <= Points(e, NoManifest)
<1>1. e.class \in {"A", "B", "C"}
  BY DashboardAssumption DEF ACTION_CLASSES, WEIGHT_CEILINGS
<1>2. \A c \in {"A", "B", "C"} : WEIGHT_CEILINGS[c] \in Nat
  BY DEF WEIGHT_CEILINGS
<1>3. CASE m = NoManifest
  BY <1>1, <1>2, <1>3 DEF Points
<1>4. CASE m # NoManifest
  <2>1. m[e.action].class \in {"A", "B", "C"} /\ m[e.action].tenths \in 1 .. 10
    BY <1>4 DEF compileManifest, Counts, ACTION_CLASSES, WEIGHT_CEILINGS
  <2>2. Points(e, m) = WEIGHT_CEILINGS[m[e.action].class] * m[e.action].tenths
        /\ Points(e, NoManifest) = 10 * WEIGHT_CEILINGS[e.class]
    BY <1>4 DEF Points
  <2>3. ASSUME NEW c \in Nat, NEW k \in 1 .. 10 PROVE c * k \in Nat /\ c * k <= 10 * c
    <3>1. 10 \in Nat /\ k \in Nat /\ 10 >= k
      OBVIOUS
    <3> QED BY <3>1, Product
  <2> QED BY <1>1, <1>2, <2>1, <2>2, <2>3
<1> QED BY <1>3, <1>4

\* The points are a sequence of natural numbers, and PointsInRole their sum.
LEMMA PointsTyped ==
  ASSUME NEW es \in Seq(Entries), NEW p, NEW role, NEW m, es = <<>> \/ compileManifest(m)
  PROVE  /\ PointsOf(es, p, role, m) \in Seq(Nat) /\ Len(PointsOf(es, p, role, m)) = Len(es)
         /\ PointsInRole(es, p, role, m) = Sum(PointsOf(es, p, role, m))
<1>1. DOMAIN es = 1 .. Len(es) /\ Len(es) \in Nat /\ \A i \in 1 .. Len(es) : es[i] \in Entries
  BY LenProperties, ElementOfSeq
<1>2. \A i \in 1 .. Len(es) : PointsOf(es, p, role, m)[i] \in Nat
  <2> SUFFICES ASSUME NEW i \in 1 .. Len(es) PROVE PointsOf(es, p, role, m)[i] \in Nat
    OBVIOUS
  <2>1. es[i] \in Entries /\ compileManifest(m)
    BY <1>1, EmptySeq
  <2>2. Counts(es[i], p, m) => Points(es[i], m) \in Nat
    BY <2>1, PointsBounded
  <2> QED BY <1>1, <2>2 DEF PointsOf
<1>3. PointsOf(es, p, role, m) \in [1 .. Len(es) -> Nat]
  <2>1. PointsOf(es, p, role, m) = [i \in 1 .. Len(es) |-> PointsOf(es, p, role, m)[i]]
    BY <1>1 DEF PointsOf
  <2> QED BY <1>2, <2>1
<1>4. PointsOf(es, p, role, m) \in Seq(Nat) /\ Len(PointsOf(es, p, role, m)) = Len(es)
  BY <1>1, <1>3
<1> QED BY <1>4 DEF PointsInRole, PointsOf

\* es are the first of the entries fs.
Begins(es, fs) == Len(es) <= Len(fs) /\ \A i \in 1 .. Len(es) : es[i] = fs[i]

\* Points only grow with further entries.
LEMMA PointsGrow ==
  ASSUME NEW es \in Seq(Entries), NEW fs \in Seq(Entries), Begins(es, fs), NEW p, NEW role, NEW m,
         fs = <<>> \/ compileManifest(m)
  PROVE  /\ PointsInRole(es, p, role, m) \in Nat /\ PointsInRole(fs, p, role, m) \in Nat
         /\ PointsInRole(es, p, role, m) <= PointsInRole(fs, p, role, m)
<1>1. /\ DOMAIN es = 1 .. Len(es) /\ Len(es) \in Nat
      /\ DOMAIN fs = 1 .. Len(fs) /\ Len(fs) \in Nat
  BY LenProperties
<1>2. es = <<>> \/ compileManifest(m)
  BY <1>1, EmptySeq DEF Begins
<1> DEFINE s == PointsOf(es, p, role, m)
           t == PointsOf(fs, p, role, m)
<1>3. s \in Seq(Nat) /\ Len(s) = Len(es) /\ PointsInRole(es, p, role, m) = Sum(s)
  BY <1>2, PointsTyped
<1>4. t \in Seq(Nat) /\ Len(t) = Len(fs) /\ PointsInRole(fs, p, role, m) = Sum(t)
  BY PointsTyped
<1>5. \A i \in 1 .. Len(es) : s[i] = t[i] /\ s[i] \in Nat
  <2>1. \A i \in 1 .. Len(es) : s[i] = t[i]
    BY <1>1 DEF Begins, PointsOf
  <2>2. \A i \in 1 .. Len(es) : s[i] \in Nat
    <3> HIDE DEF s
    <3> QED BY <1>3, ElementOfSeq
  <2> QED BY <2>1, <2>2
<1>6. Len(s) <= Len(t) /\ \A i \in 1 .. Len(s) : s[i] <= t[i]
  <2> HIDE DEF s, t
  <2> QED BY <1>3, <1>4, <1>5 DEF Begins
<1> HIDE DEF s, t
<1> QED BY <1>3, <1>4, <1>6, SumGrows

\* No points above the ceilings for a manifest that keeps the classes of the events.
LEMMA ManifestBelowCeilings ==
  ASSUME NEW es \in Seq(Entries), NEW p, NEW role, NEW m, es = <<>> \/ compileManifest(m),
         m # NoManifest, \A e \in Entries : e.action \in DOMAIN m => m[e.action].class = e.class
  PROVE  PointsInRole(es, p, role, m) <= PointsInRole(es, p, role, NoManifest)
<1> DEFINE s == PointsOf(es, p, role, m)
           t == PointsOf(es, p, role, NoManifest)
<1>1. compileManifest(NoManifest)
  BY DEF compileManifest, NoManifest
<1>2. s \in Seq(Nat) /\ Len(s) = Len(es) /\ PointsInRole(es, p, role, m) = Sum(s)
  BY PointsTyped
<1>3. t \in Seq(Nat) /\ Len(t) = Len(es) /\ PointsInRole(es, p, role, NoManifest) = Sum(t)
  BY <1>1, PointsTyped
<1>4. ASSUME NEW i \in 1 .. Len(es) PROVE s[i] <= t[i]
  <2>1. DOMAIN es = 1 .. Len(es) /\ Len(es) \in Nat /\ es[i] \in Entries /\ es # <<>>
    BY LenProperties, ElementOfSeq, EmptySeq
  <2>2. t[i] \in Nat
    <3> HIDE DEF t
    <3> QED BY <1>3, ElementOfSeq
  <2>3. CASE Counts(es[i], p, m) /\ CLASS_ROLES[es[i].class] = role
    <3>1. es[i].action \in DOMAIN m /\ Counts(es[i], p, NoManifest)
      BY <2>3 DEF Counts
    <3>2. Points(es[i], m) <= Points(es[i], NoManifest)
      BY <2>1, <2>3, <3>1, PointsBounded
    <3>3. s[i] = Points(es[i], m) /\ t[i] = Points(es[i], NoManifest)
      BY <2>1, <2>3, <3>1 DEF PointsOf
    <3> QED BY <3>2, <3>3
  <2>4. CASE ~(Counts(es[i], p, m) /\ CLASS_ROLES[es[i].class] = role)
    <3>1. s[i] = 0
      BY <2>1, <2>4 DEF PointsOf
    <3> QED BY <2>2, <3>1
  <2> QED BY <2>3, <2>4
<1>5. Len(s) <= Len(t) /\ \A i \in 1 .. Len(s) : s[i] <= t[i]
  <2>1. Len(es) \in Nat
    BY LenProperties
  <2> HIDE DEF s, t
  <2> QED BY <1>2, <1>3, <1>4, <2>1
<1> HIDE DEF s, t
<1> QED BY <1>2, <1>3, <1>5, SumGrows

\* The share of active days only grows with further entries.
LEMMA ConsistencyGrows ==
  ASSUME NEW es \in Seq(Entries), NEW fs \in Seq(Entries), Begins(es, fs), NEW p, NEW m, NEW w \in Nat
  PROVE  /\ Consistency(es, p, m, w) \in Nat /\ Consistency(fs, p, m, w) \in Nat
         /\ Consistency(es, p, m, w) <= Consistency(fs, p, m, w)
<1> DEFINE Days(gs) == {gs[i].day : i \in {i \in DOMAIN gs : Counts(gs[i], p, m)}}
<1>1. /\ DOMAIN es = 1 .. Len(es) /\ Len(es) \in Nat
      /\ DOMAIN fs = 1 .. Len(fs) /\ Len(fs) \in Nat
  BY LenProperties
<1>2. IsFiniteSet(Days(fs))
  <2> DEFINE I == {i \in DOMAIN fs : Counts(fs[i], p, m)}
             f == [i \in I |-> fs[i].day]
  <2>1. f \in Surjection(I, Days(fs))
    BY DEF Surjection
  <2>2. IsFiniteSet(1 .. Len(fs)) /\ I \in SUBSET (1 .. Len(fs))
    BY <1>1, FS_Interval
  <2>3. IsFiniteSet(I)
    <3> HIDE DEF I
    <3> QED BY <2>2, FS_Subset
  <2> HIDE DEF f, I, Days
  <2> QED BY <2>1, <2>3, FS_Surjection
<1>3. Days(es) \in SUBSET Days(fs)
  BY <1>1 DEF Begins
<1>4. /\ Consistency(es, p, m, w) =
           w + (IF Cardinality(Days(es)) < w THEN Cardinality(Days(es)) ELSE w)
      /\ Consistency(fs, p, m, w) =
           w + (IF Cardinality(Days(fs)) < w THEN Cardinality(Days(fs)) ELSE w)
  BY DEF Consistency
<1> HIDE DEF Days
<1>5. /\ Cardinality(Days(es)) \in Nat /\ Cardinality(Days(fs)) \in Nat
      /\ Cardinality(Days(es)) <= Cardinality(Days(fs))
  BY <1>2, <1>3, FS_Subset, FS_CardinalityType
<1> QED BY <1>4, <1>5

\* And so does the score.
LEMMA ScoreGrows ==
  ASSUME NEW es \in Seq(Entries), NEW fs \in Seq(Entries), Begins(es, fs), NEW p, NEW m, NEW w \in Nat,
         fs = <<>> \/ compileManifest(m)
  PROVE  /\ engagementScore(p, es, m, w).score \in Nat
         /\ engagementScore(p, fs, m, w).score >= engagementScore(p, es, m, w).score
<1> DEFINE Total(gs) == PointsInRole(gs, p, "PoA", m) + PointsInRole(gs, p, "PoU", m)
<1>1. Total(es) \in Nat /\ Total(fs) \in Nat /\ Total(fs) >= Total(es)
  <2>1. /\ PointsInRole(es, p, "PoA", m) \in Nat /\ PointsInRole(fs, p, "PoA", m) \in Nat
        /\ PointsInRole(es, p, "PoA", m) <= PointsInRole(fs, p, "PoA", m)
    BY PointsGrow
  <2>2. /\ PointsInRole(es, p, "PoU", m) \in Nat /\ PointsInRole(fs, p, "PoU", m) \in Nat
        /\ PointsInRole(es, p, "PoU", m) <= PointsInRole(fs, p, "PoU", m)
    BY PointsGrow
  <2> QED BY <2>1, <2>2
<1>2. /\ Consistency(es, p, m, w) \in Nat /\ Consistency(fs, p, m, w) \in Nat
      /\ Consistency(fs, p, m, w) >= Consistency(es, p, m, w)
  <2>1. /\ Consistency(es, p, m, w) \in Nat /\ Consistency(fs, p, m, w) \in Nat
        /\ Consistency(es, p, m, w) <= Consistency(fs, p, m, w)
    BY ConsistencyGrows
  <2> QED BY <2>1
<1>3. /\ engagementScore(p, es, m, w).score = Total(es) * Consistency(es, p, m, w)
      /\ engagementScore(p, fs, m, w).score = Total(fs) * Consistency(fs, p, m, w)
  BY DEF engagementScore
<1> HIDE DEF Total
<1>4. /\ Total(fs) * Consistency(fs, p, m, w) >= Total(es) * Consistency(fs, p, m, w)
      /\ Total(es) * Consistency(fs, p, m, w) >= Total(es) * Consistency(es, p, m, w)
  BY <1>1, <1>2, Product
<1>5. /\ Total(fs) * Consistency(fs, p, m, w) \in Nat /\ Total(es) * Consistency(fs, p, m, w) \in Nat
      /\ Total(es) * Consistency(es, p, m, w) \in Nat
  BY <1>1, <1>2
<1> QED BY <1>3, <1>4, <1>5
-------------------------------------------------------------------------------
(* The board *)

\* The board has one row for each pioneer with an entry, with the score of engagementScore.
LEMMA Board ==
  ASSUME NEW es \in Seq(Entries), NEW m, NEW w \in Nat, es = <<>> \/ compileManifest(m)
  PROVE  LET board == leaderboard(es, m, w)
             pioneers == {es[i].pioneer : i \in DOMAIN es}
         IN /\ \A i \in DOMAIN board : /\ board[i].pioneer \in pioneers
                                       /\ board[i] = engagementScore(board[i].pioneer, es, m, w)
            /\ \A l \in DOMAIN es : \E i \in DOMAIN board : board[i].pioneer = es[l].pioneer
            /\ \A i, j \in DOMAIN board : board[i].pioneer = board[j].pioneer => i = j
<1> DEFINE pioneers == {es[i].pioneer : i \in DOMAIN es}
           Row(p) == engagementScore(p, es, m, w)
           rows == {Row(p) : p \in pioneers}
           R == {ab \in rows \X rows : Ahead(ab[1], ab[2])}
           n == Cardinality(rows)
           s == InOrder(rows, R)
<1>1. DOMAIN es = 1 .. Len(es) /\ Len(es) \in Nat /\ \A i \in 1 .. Len(es) : es[i] \in Entries
  BY LenProperties, ElementOfSeq
<1>2. \A p \in pioneers : p \in Int
  BY <1>1, DashboardAssumption
<1>3. \A p \in pioneers : Row(p).pioneer = p /\ Row(p).score \in Nat
  <2>1. Begins(es, es)
    BY <1>1 DEF Begins
  <2>2. \A p : Row(p).score \in Nat
    BY <2>1, ScoreGrows
  <2>3. \A p : Row(p).pioneer = p
    BY DEF engagementScore
  <2> QED BY <2>2, <2>3
<1>4. \A a \in rows : /\ a.pioneer \in pioneers /\ a = Row(a.pioneer)
                      /\ a.pioneer \in Int /\ a.score \in Int
  <2> HIDE DEF Row, pioneers
  <2> QED BY <1>2, <1>3
<1>5. IsFiniteSet(rows)
  <2> DEFINE f == [i \in 1 .. Len(es) |-> Row(es[i].pioneer)]
  <2>1. f \in Surjection(1 .. Len(es), rows)
    BY <1>1, Zenon DEF Surjection
  <2>2. IsFiniteSet(1 .. Len(es))
    BY <1>1, FS_Interval
  <2> HIDE DEF f, rows
  <2> QED BY <2>1, <2>2, FS_Surjection
<1> HIDE DEF rows, pioneers, Row
<1>6. \A x, y \in rows : <<x, y>> \in R <=> Ahead(x, y)
  OBVIOUS
<1>7. TotalOrder(rows, R)
  <2>1. R \in SUBSET (rows \X rows)
    OBVIOUS
  <2> HIDE DEF R
  <2>2. \A x \in rows : <<x, x>> \notin R
    BY <1>4, <1>6 DEF Ahead
  <2>3. ASSUME NEW x \in rows, NEW y \in rows, x # y
        PROVE  <<x, y>> \in R \/ <<y, x>> \in R
    <3>1. x.pioneer # y.pioneer
      BY <1>4, <2>3
    <3> QED BY <1>4, <1>6, <3>1 DEF Ahead
  <2>4. ASSUME NEW x \in rows, NEW y \in rows, NEW z \in rows, <<x, y>> \in R, <<y, z>> \in R
        PROVE  <<x, z>> \in R
    <3>1. Ahead(x, y) /\ Ahead(y, z)
      BY <1>6, <2>4
    <3>2. Ahead(x, z)
      BY <1>4, <3>1 DEF Ahead
    <3> QED BY <1>6, <3>2
  <2> QED BY <2>2, <2>3, <2>4 DEF TotalOrder
<1> HIDE DEF R
<1>8. /\ n \in Nat /\ s \in [1 .. n -> rows]
      /\ \A i, j \in 1 .. n : s[i] = s[j] => i = j
      /\ \A x \in rows : \E i \in 1 .. n : s[i] = x
  BY <1>5, <1>7, InOrderIs
<1>9. leaderboard(es, m, w) = s
  BY DEF leaderboard, s, R, rows, Row, pioneers
<1> HIDE DEF s, n
<1>10. \A i \in 1 .. n : s[i] \in rows
  BY <1>8
<1>11. \A i \in 1 .. n : s[i].pioneer \in pioneers /\ s[i] = Row(s[i].pioneer)
  BY <1>4, <1>10
<1>12. ASSUME NEW l \in DOMAIN es PROVE \E i \in 1 .. n : s[i].pioneer = es[l].pioneer
  <2>1. es[l].pioneer \in pioneers
    BY DEF pioneers
  <2>2. Row(es[l].pioneer) \in rows
    BY <2>1 DEF rows
  <2> QED BY <1>3, <1>8, <2>1, <2>2
<1>13. \A i, j \in 1 .. n : s[i].pioneer = s[j].pioneer => i = j
  BY <1>8, <1>11
<1>14. DOMAIN s = 1 .. n
  BY <1>8
<1> QED BY <1>9, <1>11, <1>12, <1>13, <1>14 DEF pioneers, Row
-------------------------------------------------------------------------------
(* The report on the pool *)

\* The samples in order of time: each of them once.
LEMMA OrderedIs ==
  ASSUME NEW given \in Seq(Samples)
  PROVE  LET n == Len(given)
         IN \E places \in [1 .. n -> 1 .. n] :
              /\ ordered(given) = [i \in 1 .. n |-> given[places[i]]]
              /\ \A i, j \in 1 .. n : i < j => given[places[i]].t <= given[places[j]].t
              /\ \A x \in 1 .. n : \E i \in 1 .. n : places[i] = x
<1> DEFINE n == Len(given)
           I == DOMAIN given
           Earlier(i, j) == given[i].t < given[j].t \/ (given[i].t = given[j].t /\ i < j)
           R == {ij \in I \X I : Earlier(ij[1], ij[2])}
           places == InOrder(I, R)
<1>1. I = 1 .. n /\ n \in Nat /\ \A i \in 1 .. n : given[i].t \in Int
  BY LenProperties, ElementOfSeq, DashboardAssumption
<1>2. IsFiniteSet(I) /\ Cardinality(I) = n
  BY <1>1, FS_Interval
<1>3. \A x, y \in I : <<x, y>> \in R <=> Earlier(x, y)
  OBVIOUS
<1>4. R \in SUBSET (I \X I)
  OBVIOUS
<1> HIDE DEF R, I, n
<1>5. TotalOrder(I, R)
  <2>1. \A x \in I : <<x, x>> \notin R
    BY <1>1, <1>3
  <2>2. \A x, y \in I : x # y => <<x, y>> \in R \/ <<y, x>> \in R
    BY <1>1, <1>3
  <2>3. ASSUME NEW x \in I, NEW y \in I, NEW z \in I, <<x, y>> \in R, <<y, z>> \in R
        PROVE  <<x, z>> \in R
    <3>1. Earlier(x, y) /\ Earlier(y, z)
      BY <1>3, <2>3
    <3>2. Earlier(x, z)
      BY <1>1, <3>1
    <3> QED BY <1>3, <3>2
  <2> QED BY <2>1, <2>2, <2>3 DEF TotalOrder
<1>6. /\ places \in [1 .. n -> I]
      /\ \A i, j \in 1 .. n : i < j => <<places[i], places[j]>> \in R
      /\ \A x \in I : \E i \in 1 .. n : places[i] = x
  BY <1>2, <1>5, InOrderIs
<1>7. ordered(given) = [i \in I |-> given[places[i]]]
  BY DEF ordered, places, R, I
<1> HIDE DEF places
<1>8. ASSUME NEW i \in 1 .. n, NEW j \in 1 .. n, i < j
      PROVE  given[places[i]].t <= given[places[j]].t
  <2>1. places[i] \in I /\ places[j] \in I
    BY <1>6
  <2>2. Earlier(places[i], places[j])
    BY <1>3, <1>6, <1>8, <2>1
  <2> QED BY <1>1, <2>1, <2>2
<1> QED BY <1>1, <1>6, <1>7, <1>8 DEF n

\* One step of a series that falls slowly.
LEMMA Compound ==
  ASSUME NEW x \in Nat, NEW y \in Nat, NEW z \in Nat, NEW c \in Nat, NEW p \in Nat, NEW q \in Nat,
         10 * x >= y * c, y * p >= z * q
  PROVE  x * (10 * p) >= z * (c * q)
<1>1. (10 * x) * p >= (y * c) * p
  <2>1. 10 * x \in Nat /\ y * c \in Nat
    OBVIOUS
  <2> QED BY <2>1, Product
<1>2. (y * p) * c >= (z * q) * c
  <2>1. y * p \in Nat /\ z * q \in Nat
    OBVIOUS
  <2> QED BY <2>1, Product
<1>3. x * (10 * p) = (10 * x) * p /\ (y * c) * p = (y * p) * c /\ (z * q) * c = z * (c * q)
  OBVIOUS
<1>4. (10 * x) * p \in Nat /\ (y * c) * p \in Nat /\ (z * q) * c \in Nat
  OBVIOUS
<1> QED BY <1>1, <1>2, <1>3, <1>4

\* A series that loses at most tolerance tenths at each step.
LEMMA FallsSlowly ==
  ASSUME NEW n \in Nat, NEW k \in [1 .. n -> Nat], NEW tolerance \in 0 .. 10,
         \A i \in 2 .. n : 10 * k[i] >= k[i - 1] * (10 - tolerance),
         NEW a \in 1 .. n, NEW b \in 1 .. n, a <= b
  PROVE  k[b] * Power(10, n - 1) >= k[a] * Power(10 - tolerance, n - 1)
<1> DEFINE c == 10 - tolerance
<1>1. n - 1 \in Nat /\ 10 \in Nat /\ c \in Nat /\ c <= 10
  OBVIOUS
<1>2. PICK f \in [0 .. n - 1 -> Nat] :
        f[0] = 1 /\ (\A i \in 1 .. n - 1 : f[i] = 10 * f[i - 1]) /\ Power(10, n - 1) = f[n - 1]
  <2> HIDE DEF c
  <2> QED BY <1>1, PowerSteps, Zenon
<1>3. PICK g \in [0 .. n - 1 -> Nat] :
        g[0] = 1 /\ (\A i \in 1 .. n - 1 : g[i] = c * g[i - 1]) /\ Power(c, n - 1) = g[n - 1]
  <2> HIDE DEF c
  <2> QED BY <1>1, PowerSteps, Zenon
<1> HIDE DEF c
<1> DEFINE At(m) == IF a + m <= b THEN k[a + m] ELSE k[b]
           S == {m \in 0 .. n - 1 : At(m) * f[m] >= k[a] * g[m]}
<1>4. \A m \in 0 .. n - 1 : At(m) \in Nat /\ f[m] \in Nat /\ g[m] \in Nat
  <2>1. ASSUME NEW m \in 0 .. n - 1 PROVE At(m) \in Nat
    <3>1. k[b] \in Nat /\ (a + m <= b => a + m \in 1 .. n)
      OBVIOUS
    <3>2. a + m <= b => k[a + m] \in Nat
      BY <3>1
    <3> QED BY <3>1, <3>2
  <2> HIDE DEF At
  <2> QED BY <1>2, <1>3, <2>1
<1>5. \A m \in 0 .. n - 2 : 10 * At(m + 1) >= At(m) * c
  <2> SUFFICES ASSUME NEW m \in 0 .. n - 2 PROVE 10 * At(m + 1) >= At(m) * c
    OBVIOUS
  <2>1. CASE a + (m + 1) <= b
    <3>1. a + (m + 1) \in 2 .. n /\ (a + (m + 1)) - 1 = a + m /\ a + m <= b
      BY <2>1
    <3>2. 10 * k[a + (m + 1)] >= k[a + m] * c
      BY <3>1 DEF c
    <3> QED BY <2>1, <3>1, <3>2
  <2>2. CASE ~(a + (m + 1) <= b)
    <3>1. At(m + 1) = k[b]
      BY <2>2
    <3>2. At(m) = k[b]
      <4>1. CASE a + m <= b
        <5>1. a + m = b
          BY <2>2, <4>1
        <5> QED BY <4>1, <5>1
      <4>2. CASE ~(a + m <= b)
        BY <4>2
      <4> QED BY <4>1, <4>2
    <3>3. k[b] * 10 >= k[b] * c /\ k[b] * 10 = 10 * k[b]
      <4>1. k[b] \in Nat /\ 10 >= c
        BY <1>1
      <4> QED BY <1>1, <4>1, Product
    <3> HIDE DEF At
    <3> QED BY <3>1, <3>2, <3>3
  <2> QED BY <2>1, <2>2
<1>6. 0 \in S
  <2>1. At(0) = k[a] /\ 0 \in 0 .. n - 1
    BY <1>1
  <2> QED BY <1>2, <1>3, <2>1
<1> HIDE DEF At
<1>7. ASSUME NEW m \in 0 .. (n - 1) - 1, m \in S PROVE m + 1 \in S
  <2>1. /\ m \in 0 .. n - 2 /\ m \in 0 .. n - 1 /\ m + 1 \in 0 .. n - 1
        /\ m + 1 \in 1 .. n - 1 /\ (m + 1) - 1 = m
    BY <1>1
  <2>2. /\ At(m + 1) \in Nat /\ At(m) \in Nat /\ f[m] \in Nat /\ g[m] \in Nat /\ k[a] \in Nat
    BY <1>4, <2>1
  <2>3. f[m + 1] = 10 * f[m] /\ g[m + 1] = c * g[m]
    BY <1>2, <1>3, <2>1
  <2>4. 10 * At(m + 1) >= At(m) * c /\ At(m) * f[m] >= k[a] * g[m]
    BY <1>5, <1>7, <2>1
  <2>5. At(m + 1) * (10 * f[m]) >= k[a] * (c * g[m])
    BY <1>1, <2>2, <2>4, Compound
  <2> QED BY <2>1, <2>3, <2>5
<1>8. n - 1 \in S
  <2> HIDE DEF S
  <2>1. \A m \in 0 .. n - 1 : m \in S
    BY <1>1, <1>6, <1>7, UpTo
  <2> QED BY <1>1, <2>1
<1>9. At(n - 1) = k[b]
  <2>1. CASE a + (n - 1) <= b
    <3>1. a + (n - 1) = b
      BY <2>1
    <3> QED BY <2>1, <3>1 DEF At
  <2>2. CASE ~(a + (n - 1) <= b)
    BY <2>2 DEF At
  <2> QED BY <2>1, <2>2
<1> QED BY <1>2, <1>3, <1>8, <1>9 DEF c

Fractions == Nat \X (Nat \ {0})

\* Fractions are compared as numbers are.
LEMMA AtLeastOrders ==
  ASSUME NEW x \in Fractions, NEW y \in Fractions, NEW z \in Fractions
  PROVE  /\ AtLeast(x, y) \/ AtLeast(y, x)
         /\ AtLeast(x, y) /\ AtLeast(y, z) => AtLeast(x, z)
<1>1. PICK a \in Nat, b \in Nat \ {0} : x = <<a, b>>
  BY DEF Fractions
<1>2. PICK c \in Nat, d \in Nat \ {0} : y = <<c, d>>
  BY DEF Fractions
<1>3. PICK e \in Nat, f \in Nat \ {0} : z = <<e, f>>
  BY DEF Fractions
<1>4. a * d >= c * b \/ c * b >= a * d
  <2>1. a * d \in Nat /\ c * b \in Nat
    OBVIOUS
  <2> QED BY <2>1
<1>5. ASSUME a * d >= c * b, c * f >= e * d PROVE a * f >= e * b
  <2>1. /\ a * d \in Nat /\ c * b \in Nat /\ c * f \in Nat /\ e * d \in Nat
        /\ a * f \in Nat /\ e * b \in Nat
    OBVIOUS
  <2>2. (a * d) * f >= (c * b) * f /\ (c * f) * b >= (e * d) * b
    BY <1>5, <2>1, Product
  <2>3. (a * f) * d = (a * d) * f /\ (c * b) * f = (c * f) * b /\ (e * d) * b = (e * b) * d
    OBVIOUS
  <2>4. (a * d) * f \in Nat /\ (c * b) * f \in Nat /\ (e * d) * b \in Nat
    OBVIOUS
  <2>5. (a * f) * d >= (e * b) * d
    BY <2>2, <2>3, <2>4
  <2> QED BY <2>1, <2>5, Cancel
<1> QED BY <1>1, <1>2, <1>3, <1>4, <1>5 DEF AtLeast

\* Of finitely many fractions one is the greatest.
LEMMA Greatest ==
  ASSUME NEW n \in Nat \ {0}, NEW d \in [1 .. n -> Fractions]
  PROVE  \E i \in 1 .. n : \A j \in 1 .. n : AtLeast(d[i], d[j])
<1> DEFINE Has(m) == \E i \in 1 .. m + 1 : \A j \in 1 .. m + 1 : AtLeast(d[i], d[j])
           S == {m \in 0 .. n - 1 : Has(m)}
<1>1. 0 \in S
  <2>1. 1 .. 0 + 1 = {1} /\ 0 \in 0 .. n - 1 /\ d[1] \in Fractions
    OBVIOUS
  <2>2. AtLeast(d[1], d[1])
    BY <2>1, AtLeastOrders
  <2> QED BY <2>1, <2>2
<1>2. ASSUME NEW m \in 0 .. (n - 1) - 1, m \in S PROVE m + 1 \in S
  <2>1. PICK i \in 1 .. m + 1 : \A j \in 1 .. m + 1 : AtLeast(d[i], d[j])
    BY <1>2
  <2> DEFINE l == (m + 1) + 1
  <2>2. /\ l \in 1 .. n /\ i \in 1 .. n /\ i \in 1 .. l /\ l \in 1 .. l /\ m + 1 \in 0 .. n - 1
        /\ \A j \in 1 .. l : j \in 1 .. n /\ (j \in 1 .. m + 1 \/ j = l)
    OBVIOUS
  <2> HIDE DEF l
  <2>3. \A j \in 1 .. n : d[j] \in Fractions
    OBVIOUS
  <2>4. AtLeast(d[l], d[l])
    BY <2>2, <2>3, AtLeastOrders
  <2>5. CASE AtLeast(d[i], d[l])
    <3>1. \A j \in 1 .. l : AtLeast(d[i], d[j])
      BY <2>1, <2>2, <2>5
    <3> QED BY <2>2, <3>1 DEF l
  <2>6. CASE AtLeast(d[l], d[i])
    <3>1. \A j \in 1 .. l : AtLeast(d[l], d[j])
      BY <2>1, <2>2, <2>3, <2>4, <2>6, AtLeastOrders
    <3> QED BY <2>2, <3>1 DEF l
  <2> QED BY <2>2, <2>3, <2>5, <2>6, AtLeastOrders
<1>3. n - 1 \in S
  <2>1. n - 1 \in Nat
    OBVIOUS
  <2> HIDE DEF S
  <2>2. \A m \in 0 .. n - 1 : m \in S
    BY <1>1, <1>2, <2>1, UpTo
  <2> QED BY <2>1, <2>2
<1>4. (n - 1) + 1 = n
  OBVIOUS
<1> QED BY <1>3, <1>4

\* A series of positive numbers that once loses more than tolerance tenths in a step: of
\* the drawdowns below the running peaks the greatest is beyond the tolerance.
LEMMA LossIsSeen ==
  ASSUME NEW n \in Nat, NEW k \in [1 .. n -> Nat \ {0}], NEW tolerance \in 0 .. 10,
         NEW l \in 2 .. n, 10 * k[l] < k[l - 1] * (10 - tolerance)
  PROVE  LET Peak(i) == CHOOSE p \in {k[j] : j \in 1 .. i} : \A j \in 1 .. i : k[j] <= p
             drawdowns == {<<Peak(i) - k[i], Peak(i)>> : i \in 1 .. n}
             d == CHOOSE d \in drawdowns : \A e \in drawdowns : AtLeast(d, e)
         IN d[1] * 10 > d[2] * tolerance
<1> DEFINE Peak(i) == CHOOSE p \in {k[j] : j \in 1 .. i} : \A j \in 1 .. i : k[j] <= p
           drawdowns == {<<Peak(i) - k[i], Peak(i)>> : i \in 1 .. n}
           d == CHOOSE d \in drawdowns : \A e \in drawdowns : AtLeast(d, e)
<1>1. ASSUME NEW i \in 1 .. n
      PROVE  Peak(i) \in Nat \ {0} /\ \A j \in 1 .. i : k[j] <= Peak(i)
  <2> DEFINE f == [j \in 1 .. i |-> <<k[j], 1>>]
  <2>1. i \in Nat \ {0} /\ \A j \in 1 .. i : k[j] \in Nat \ {0}
    OBVIOUS
  <2>2. f \in [1 .. i -> Fractions] /\ \A j \in 1 .. i : f[j] = <<k[j], 1>>
    BY <2>1 DEF Fractions
  <2>3. PICK p \in 1 .. i : \A j \in 1 .. i : AtLeast(f[p], f[j])
    <3> HIDE DEF f
    <3> QED BY <2>1, <2>2, Greatest
  <2>4. \A j \in 1 .. i : k[j] <= k[p]
    <3> SUFFICES ASSUME NEW j \in 1 .. i PROVE k[j] <= k[p]
      OBVIOUS
    <3>1. k[p] * 1 >= k[j] * 1
      BY <2>2, <2>3 DEF AtLeast
    <3> QED BY <2>1, <3>1
  <2>5. Peak(i) \in {k[j] : j \in 1 .. i} /\ \A j \in 1 .. i : k[j] <= Peak(i)
    BY <2>4
  <2> HIDE DEF Peak
  <2> QED BY <2>1, <2>5
<1> HIDE DEF Peak
<1> DEFINE D == [i \in 1 .. n |-> <<Peak(i) - k[i], Peak(i)>>]
<1>2. D \in [1 .. n -> Fractions]
  <2> SUFFICES ASSUME NEW i \in 1 .. n PROVE Peak(i) - k[i] \in Nat /\ Peak(i) \in Nat \ {0}
    BY DEF Fractions
  <2>1. k[i] \in Nat \ {0} /\ Peak(i) \in Nat \ {0} /\ k[i] <= Peak(i)
    BY <1>1
  <2> QED BY <2>1
<1>3. drawdowns = {D[i] : i \in 1 .. n}
  OBVIOUS
<1>4. d \in drawdowns /\ \A e \in drawdowns : AtLeast(d, e)
  <2>1. PICK i \in 1 .. n : \A j \in 1 .. n : AtLeast(D[i], D[j])
    <3> HIDE DEF D
    <3>1. n \in Nat \ {0}
      OBVIOUS
    <3> QED BY <1>2, <3>1, Greatest
  <2>2. D[i] \in drawdowns /\ \A e \in drawdowns : AtLeast(D[i], e)
    <3> HIDE DEF D, drawdowns
    <3> QED BY <1>3, <2>1
  <2> HIDE DEF D, drawdowns
  <2> QED BY <2>2
<1>5. PICK i \in 1 .. n : d = D[i]
  <2> HIDE DEF D, d, drawdowns
  <2> QED BY <1>3, <1>4
<1>6. PICK x \in Nat, y \in Nat \ {0} : d = <<x, y>>
  <2> HIDE DEF D, d
  <2>1. d \in Fractions
    BY <1>2, <1>5
  <2> QED BY <2>1 DEF Fractions
<1> DEFINE u == Peak(l) - k[l]
           v == Peak(l)
<1>7. u \in Nat /\ v \in Nat \ {0} /\ u * 10 > v * tolerance
  <2>1. /\ k[l] \in Nat \ {0} /\ k[l - 1] \in Nat \ {0} /\ Peak(l) \in Nat \ {0}
        /\ k[l] <= Peak(l) /\ Peak(l) >= k[l - 1]
    BY <1>1
  <2>2. ASSUME NEW a \in Nat, NEW b \in Nat, NEW p \in Nat, a <= p, p >= b,
               10 * a < b * (10 - tolerance)
        PROVE  p - a \in Nat /\ (p - a) * 10 > p * tolerance
    <3>1. 10 - tolerance \in Nat
      OBVIOUS
    <3>2. p * (10 - tolerance) >= b * (10 - tolerance)
      BY <2>2, <3>1, Product
    <3>3. p * (10 - tolerance) = p * 10 - p * tolerance /\ (p - a) * 10 = p * 10 - 10 * a
      OBVIOUS
    <3>4. p * tolerance \in Nat /\ b * (10 - tolerance) \in Nat
      BY <3>1
    <3> QED BY <2>2, <3>2, <3>3, <3>4
  <2> QED BY <2>1, <2>2
<1>8. x * v >= u * y
  <2>1. <<u, v>> \in drawdowns
    OBVIOUS
  <2>2. AtLeast(d, <<u, v>>)
    <3> HIDE DEF d, drawdowns, u, v
    <3> QED BY <1>4, <2>1
  <2> HIDE DEF d, u, v
  <2> QED BY <1>6, <2>2 DEF AtLeast
<1> HIDE DEF u, v
<1>9. x * 10 > y * tolerance
  <2> SUFFICES ASSUME y * tolerance >= x * 10 PROVE FALSE
    <3>1. y * tolerance \in Nat /\ x * 10 \in Nat
      OBVIOUS
    <3> QED BY <3>1
  <2>1. x * 10 \in Nat /\ y * tolerance \in Nat /\ x * v \in Nat /\ u * y \in Nat
        /\ v * tolerance \in Nat /\ u * 10 \in Nat
    BY <1>7
  <2>2. (y * tolerance) * v >= (x * 10) * v
    BY <1>7, <2>1, Product
  <2>3. (x * v) * 10 >= (u * y) * 10
    BY <1>8, <2>1, Product
  <2>4. (u * 10) * y >= (v * tolerance + 1) * y
    <3>1. u * 10 >= v * tolerance + 1 /\ v * tolerance + 1 \in Nat
      BY <1>7, <2>1
    <3> QED BY <2>1, <3>1, Product
  <2>5. /\ (x * 10) * v = (x * v) * 10 /\ (u * y) * 10 = (u * 10) * y
        /\ (v * tolerance + 1) * y = (y * tolerance) * v + y
    BY <1>7
  <2>6. (y * tolerance) * v \in Nat /\ (x * v) * 10 \in Nat /\ (u * 10) * y \in Nat
    BY <1>7, <2>1
  <2> QED BY <2>2, <2>3, <2>4, <2>5, <2>6
<1>10. d[1] * 10 > d[2] * tolerance
  <2> HIDE DEF d
  <2> QED BY <1>6, <1>9
<1> QED BY <1>10 DEF d, drawdowns, Peak

\* What invariantReport says of samples in any order.
LEMMA ReportIs ==
  ASSUME NEW given \in Seq(Samples), NEW tolerance \in 0 .. 10
  PROVE  LET report == invariantReport(given, tolerance)
             steps == Len(given) - 1
             K(i) == given[i].r * given[i].q
         IN IF healthy(report)
            THEN \A i, j \in DOMAIN given : given[i].t < given[j].t =>
                   K(j) * Power(10, steps) >= K(i) * Power(10 - tolerance, steps)
            ELSE report.drawdown[1] * 10 > report.drawdown[2] * tolerance
<1> DEFINE n == Len(given)
           K(i) == given[i].r * given[i].q
           k == [i \in DOMAIN given |-> ordered(given)[i].r * ordered(given)[i].q]
           report == invariantReport(given, tolerance)
           Peak(i) == CHOOSE p \in {k[j] : j \in 1 .. i} : \A j \in 1 .. i : k[j] <= p
           drawdowns == {<<Peak(i) - k[i], Peak(i)>> : i \in 1 .. n}
<1>1. DOMAIN given = 1 .. n /\ n \in Nat /\ \A i \in 1 .. n : given[i].t \in Int /\ K(i) \in Nat \ {0}
  <2>1. DOMAIN given = 1 .. n /\ n \in Nat /\ \A i \in 1 .. n : given[i] \in Samples
    BY LenProperties, ElementOfSeq
  <2>2. \A r, q \in Nat \ {0} : r * q \in Nat \ {0}
    OBVIOUS
  <2> QED BY <2>1, <2>2, DashboardAssumption
<1>2. PICK places \in [1 .. n -> 1 .. n] :
        /\ ordered(given) = [i \in 1 .. n |-> given[places[i]]]
        /\ \A i, j \in 1 .. n : i < j => given[places[i]].t <= given[places[j]].t
        /\ \A x \in 1 .. n : \E i \in 1 .. n : places[i] = x
  BY OrderedIs, Zenon
<1>3. \A i \in 1 .. n : k[i] = K(places[i])
  BY <1>1, <1>2
<1>4. k \in [1 .. n -> Nat \ {0}]
  <2>1. \A i \in 1 .. n : k[i] \in Nat \ {0}
    <3> SUFFICES ASSUME NEW i \in 1 .. n PROVE k[i] \in Nat \ {0}
      OBVIOUS
    <3> HIDE DEF k, K, n
    <3>1. places[i] \in 1 .. n
      BY <1>2
    <3> QED BY <1>1, <1>3, <3>1
  <2>2. k = [i \in 1 .. n |-> k[i]]
    BY <1>1
  <2> HIDE DEF k, n
  <2> QED BY <2>1, <2>2
<1>5. Len(k) = n
  <2> HIDE DEF k, n
  <2>1. DOMAIN k = 1 .. n
    BY <1>4
  <2> QED BY <1>1, <2>1
<1>6. /\ report.extractions = {i \in 2 .. n : 10 * k[i] < k[i - 1] * (10 - tolerance)}
      /\ report.drawdown = CHOOSE d \in drawdowns : \A e \in drawdowns : AtLeast(d, e)
  <2>1. report.extractions = {i \in 2 .. Len(k) : 10 * k[i] < k[i - 1] * (10 - tolerance)}
    BY DEF invariantReport
  <2>2. DOMAIN k = 1 .. n
    BY <1>1
  <2>3. report.drawdown = LET dd == {<<Peak(i) - k[i], Peak(i)>> : i \in DOMAIN k}
                          IN CHOOSE d \in dd : \A e \in dd : AtLeast(d, e)
    BY DEF invariantReport
  <2> HIDE DEF k, n, report
  <2> QED BY <1>5, <2>1, <2>2, <2>3
<1> HIDE DEF k, K, n, report
<1>7. ASSUME healthy(report), NEW i \in 1 .. n, NEW j \in 1 .. n, given[i].t < given[j].t
      PROVE  K(j) * Power(10, n - 1) >= K(i) * Power(10 - tolerance, n - 1)
  <2>1. PICK a \in 1 .. n : places[a] = i
    BY <1>2
  <2>2. PICK b \in 1 .. n : places[b] = j
    BY <1>2
  <2>3. ~(b < a)
    <3>1. b < a => given[j].t <= given[i].t
      BY <1>2, <2>1, <2>2
    <3>2. given[i].t \in Int /\ given[j].t \in Int
      BY <1>1
    <3>3. given[i].t < given[j].t
      BY <1>7
    <3> QED BY <3>1, <3>2, <3>3
  <2>4. a <= b
    BY <1>1, <2>3
  <2>5. \A l \in 2 .. n : 10 * k[l] >= k[l - 1] * (10 - tolerance)
    <3> SUFFICES ASSUME NEW l \in 2 .. n PROVE 10 * k[l] >= k[l - 1] * (10 - tolerance)
      OBVIOUS
    <3>1. ~(10 * k[l] < k[l - 1] * (10 - tolerance))
      BY <1>6, <1>7 DEF healthy
    <3>2. k[l] \in Nat /\ k[l - 1] \in Nat /\ 10 - tolerance \in Nat
      BY <1>1, <1>4
    <3>3. 10 * k[l] \in Nat /\ k[l - 1] * (10 - tolerance) \in Nat
      BY <3>2
    <3> QED BY <3>1, <3>3
  <2>6. k \in [1 .. n -> Nat]
    BY <1>4
  <2>7. k[b] * Power(10, n - 1) >= k[a] * Power(10 - tolerance, n - 1)
    BY <1>1, <2>4, <2>5, <2>6, FallsSlowly
  <2> QED BY <1>3, <2>1, <2>2, <2>7
<1>8. ASSUME ~healthy(report)
      PROVE  report.drawdown[1] * 10 > report.drawdown[2] * tolerance
  <2>1. PICK l \in 2 .. n : 10 * k[l] < k[l - 1] * (10 - tolerance)
    BY <1>6, <1>8 DEF healthy
  <2> QED BY <1>1, <1>4, <1>6, <2>1, LossIsSeen
<1> QED BY <1>1, <1>7, <1>8 DEF K, n, report
-------------------------------------------------------------------------------
(* The dashboard *)

\* A board was made of the first entries, that are scorable if there are any.
BoardInv ==
  shown.kind = "snapshot" =>
    \E n \in 0 .. Len(entries) :
      /\ n = 0 \/ compileManifest(terms.manifest)
      /\ shown.board = leaderboard(SubSeq(entries, 1, n), terms.manifest, terms.window)

DashboardTypeOK == terms \in Terms /\ entries \in Seq(Entries) /\ samples \in Seq(Samples)

DashboardInv == DashboardTypeOK /\ BoardInv /\ IntactFloorHolds /\ PoolReportIsSound

\* The first n entries.
LEMMA FirstEntries ==
  ASSUME NEW fs \in Seq(Entries), NEW n \in 0 .. Len(fs)
  PROVE  LET es == SubSeq(fs, 1, n)
         IN /\ es \in Seq(Entries) /\ Len(es) = n /\ Begins(es, fs)
            /\ n = 0 => es = <<>>
            /\ n = Len(fs) => es = fs
            /\ \A e \in Entries : SubSeq(Append(fs, e), 1, n) = es
<1> DEFINE es == SubSeq(fs, 1, n)
<1>1. Len(fs) \in Nat /\ fs \in [1 .. Len(fs) -> Entries]
  BY LenProperties
<1>2. /\ es \in Seq(Entries) /\ Len(es) = n
      /\ \A i \in 1 .. n : es[i] = fs[i]
  BY <1>1
<1>3. Begins(es, fs)
  BY <1>1, <1>2 DEF Begins
<1>4. n = 0 => es = <<>>
  BY <1>1
<1>5. n = Len(fs) => es = fs
  BY <1>1, <1>2
<1>6. ASSUME NEW e \in Entries PROVE SubSeq(Append(fs, e), 1, n) = es
  BY <1>1
<1> QED BY <1>2, <1>3, <1>4, <1>5, <1>6

\* Who is on the board, and with which row.
LEMMA OnBoard ==
  ASSUME NEW es \in Seq(Entries), NEW m, NEW w \in Nat, es = <<>> \/ compileManifest(m), NEW p
  PROVE  LET board == leaderboard(es, m, w)
         IN /\ p \in Ranked(board) <=> \E i \in DOMAIN es : es[i].pioneer = p
            /\ p \in Ranked(board) => board[RowOf(board, p)] = engagementScore(p, es, m, w)
<1> DEFINE board == leaderboard(es, m, w)
           pioneers == {es[i].pioneer : i \in DOMAIN es}
<1>1. \A i \in DOMAIN board : /\ board[i].pioneer \in pioneers
                             /\ board[i] = engagementScore(board[i].pioneer, es, m, w)
  BY Board
<1>2. \A l \in DOMAIN es : \E i \in DOMAIN board : board[i].pioneer = es[l].pioneer
  BY Board
<1> HIDE DEF board
<1>3. p \in Ranked(board) <=> p \in pioneers
  BY <1>1, <1>2 DEF Ranked
<1>4. ASSUME p \in Ranked(board)
      PROVE  RowOf(board, p) \in DOMAIN board /\ board[RowOf(board, p)].pioneer = p
  BY <1>4 DEF Ranked, RowOf
<1>5. p \in Ranked(board) => board[RowOf(board, p)] = engagementScore(p, es, m, w)
  BY <1>1, <1>4
<1> QED BY <1>3, <1>5 DEF board

\* What Assemble shows was made of all entries.
LEMMA AssembledBoard ==
  ASSUME DashboardTypeOK, Assemble, shown'.kind = "snapshot"
  PROVE  /\ entries = <<>> \/ compileManifest(terms.manifest)
         /\ shown'.board = leaderboard(entries, terms.manifest, terms.window)
<1>1. PICK now \in Instants :
        shown' = IF Len(samples) = 1 \/ ~(entries = <<>> \/ scorable(entries, terms.manifest))
                 THEN TypeError
                 ELSE [kind |-> "snapshot",
                       floor |-> dynamicFloorPrice(terms.pool),
                       health |-> IF samples = <<>> THEN Nothing ELSE invariantReport(samples, 0),
                       lock |-> EscrowLock(terms.attestation, now),
                       board |-> leaderboard(entries, terms.manifest, terms.window)]
  BY DEF Assemble
<1>2. ~(Len(samples) = 1 \/ ~(entries = <<>> \/ scorable(entries, terms.manifest)))
  BY <1>1 DEF TypeError
<1> QED BY <1>1, <1>2 DEF scorable

\* Every step keeps the types and what the board was made of.
LEMMA BoardStep ==
  ASSUME DashboardTypeOK, BoardInv, Publication
  PROVE  DashboardTypeOK' /\ BoardInv'
<1>1. CASE Collect
  <2>1. PICK e \in Entries : entries' = Append(entries, e)
    BY <1>1 DEF Collect
  <2>2. UNCHANGED <<terms, samples, shown>>
    BY <1>1 DEF Collect
  <2>3. entries \in Seq(Entries) /\ Len(entries) \in Nat
    BY LenProperties DEF DashboardTypeOK
  <2>4. entries' \in Seq(Entries) /\ Len(entries') = Len(entries) + 1
    BY <2>1, <2>3, AppendProperties
  <2>5. DashboardTypeOK'
    BY <2>2, <2>4 DEF DashboardTypeOK
  <2>6. BoardInv'
    <3> SUFFICES ASSUME shown'.kind = "snapshot"
                 PROVE  \E n \in 0 .. Len(entries') :
                          /\ n = 0 \/ compileManifest(terms'.manifest)
                          /\ shown'.board = leaderboard(SubSeq(entries', 1, n), terms'.manifest, terms'.window)
      BY DEF BoardInv
    <3>1. PICK n \in 0 .. Len(entries) :
            /\ n = 0 \/ compileManifest(terms.manifest)
            /\ shown.board = leaderboard(SubSeq(entries, 1, n), terms.manifest, terms.window)
      BY <2>2 DEF BoardInv
    <3>2. SubSeq(entries', 1, n) = SubSeq(entries, 1, n)
      BY <2>1, <2>3, FirstEntries
    <3>3. n \in 0 .. Len(entries')
      BY <2>3, <2>4
    <3> QED BY <2>2, <3>1, <3>2, <3>3
  <2> QED BY <2>5, <2>6
<1>2. CASE TakeSample
  <2>1. PICK s \in Samples : samples' = Append(samples, s)
    BY <1>2 DEF TakeSample
  <2>2. samples' \in Seq(Samples) /\ UNCHANGED <<terms, entries, shown>>
    BY <1>2, <2>1, AppendProperties DEF TakeSample, DashboardTypeOK
  <2> QED BY <2>2 DEF DashboardTypeOK, BoardInv
<1>3. CASE Assemble
  <2>1. UNCHANGED <<terms, entries, samples>>
    BY <1>3 DEF Assemble
  <2>2. BoardInv'
    <3> SUFFICES ASSUME shown'.kind = "snapshot"
                 PROVE  \E n \in 0 .. Len(entries) :
                          /\ n = 0 \/ compileManifest(terms.manifest)
                          /\ shown'.board = leaderboard(SubSeq(entries, 1, n), terms.manifest, terms.window)
      BY <2>1 DEF BoardInv
    <3>1. /\ entries = <<>> \/ compileManifest(terms.manifest)
          /\ shown'.board = leaderboard(entries, terms.manifest, terms.window)
      BY <1>3, AssembledBoard
    <3>2. entries \in Seq(Entries) /\ Len(entries) \in 0 .. Len(entries) /\ (entries = <<>> => Len(entries) = 0)
      BY LenProperties, EmptySeq DEF DashboardTypeOK
    <3>3. SubSeq(entries, 1, Len(entries)) = entries
      BY <3>2, FirstEntries
    <3> QED BY <3>1, <3>2, <3>3
  <2> QED BY <2>1, <2>2 DEF DashboardTypeOK
<1>4. CASE Report
  <2>1. shown'.kind = "report" /\ UNCHANGED <<terms, entries, samples>>
    BY <1>4 DEF Report
  <2> QED BY <2>1 DEF DashboardTypeOK, BoardInv
<1>5. CASE Compare
  <2>1. shown'.kind = "comparison" /\ UNCHANGED <<terms, entries, samples>>
    BY <1>5 DEF Compare
  <2> QED BY <2>1 DEF DashboardTypeOK, BoardInv
<1> QED BY <1>1, <1>2, <1>3, <1>4, <1>5 DEF Publication

\* pfloor.js: floor price is spot price times their ratio, so where neither has fallen
\* the floor has not.
LEMMA FloorIsRatioTimesSpot ==
  ASSUME NEW r1 \in Nat \ {0}, NEW q1 \in Nat \ {0}, NEW s1 \in Nat,
         NEW r2 \in Nat \ {0}, NEW q2 \in Nat \ {0}, NEW s2 \in Nat,
         LET before == [r |-> r1, q |-> q1, s |-> s1]
             after == [r |-> r2, q |-> q2, s |-> s2]
         IN /\ AtLeast(floorToSpot(after), floorToSpot(before))
            /\ AtLeast(spotPrice(after), spotPrice(before))
  PROVE  LET before == [r |-> r1, q |-> q1, s |-> s1]
             after == [r |-> r2, q |-> q2, s |-> s2]
         IN AtLeast(floorPrice(after), floorPrice(before))
<1> DEFINE t1 == (r1 + s1) * (r1 + s1)
           t2 == (r2 + s2) * (r2 + s2)
<1>1. t1 \in Nat /\ t2 \in Nat
  OBVIOUS
<1>2. (r2 * r2) * t1 >= (r1 * r1) * t2 /\ q2 * r1 >= q1 * r2
  BY DEF AtLeast, floorToSpot, spotPrice
<1> HIDE DEF t1, t2
<1>3. ((r2 * r2) * t1) * (q2 * r1) >= ((r1 * r1) * t2) * (q1 * r2)
  <2> DEFINE a == (r2 * r2) * t1
             b == (r1 * r1) * t2
             c == q2 * r1
             d == q1 * r2
  <2>1. a \in Nat /\ b \in Nat /\ c \in Nat /\ d \in Nat /\ a >= b /\ c >= d
    BY <1>1, <1>2
  <2> HIDE DEF a, b, c, d
  <2>2. a * c \in Nat /\ b * c \in Nat /\ b * d \in Nat
    BY <2>1
  <2>3. a * c >= b * c /\ b * c >= b * d
    BY <2>1, Product
  <2>4. a * c >= b * d
    BY <2>2, <2>3
  <2> QED BY <2>4 DEF a, b, c, d
<1>4. /\ ((r2 * r2) * t1) * (q2 * r1) = ((r2 * q2) * t1) * (r1 * r2)
      /\ ((r1 * r1) * t2) * (q1 * r2) = ((r1 * q1) * t2) * (r1 * r2)
  BY <1>1
<1>5. (r2 * q2) * t1 >= (r1 * q1) * t2
  <2>1. (r2 * q2) * t1 \in Nat /\ (r1 * q1) * t2 \in Nat /\ r1 * r2 \in Nat \ {0}
    BY <1>1
  <2> QED BY <1>3, <1>4, <2>1, Cancel
<1> QED BY <1>5 DEF AtLeast, floorPrice, t1, t2

\* What Compare shows.
LEMMA ComparisonIsSound == samples \in Seq(Samples) /\ Compare => IntactFloorHolds'
<1> SUFFICES ASSUME samples \in Seq(Samples), Compare PROVE IntactFloorHolds'
  OBVIOUS
<1>1. PICK i \in 2 .. Len(samples), s1 \in Supplies, s2 \in Supplies :
        shown' = [kind |-> "comparison", before |-> Pool(samples[i - 1], s1),
                  after |-> Pool(samples[i], s2),
                  intact |-> floorIntact(Pool(samples[i - 1], s1), Pool(samples[i], s2), terms.minimum)]
  BY DEF Compare
<1> DEFINE before == Pool(samples[i - 1], s1)
           after == Pool(samples[i], s2)
<1>2. Len(samples) \in Nat /\ i - 1 \in 1 .. Len(samples) /\ i \in 1 .. Len(samples)
  BY LenProperties
<1>3. samples[i - 1] \in Samples /\ samples[i] \in Samples
  BY <1>2, ElementOfSeq
<1>4. /\ samples[i - 1].r \in Nat \ {0} /\ samples[i - 1].q \in Nat \ {0} /\ s1 \in Nat
      /\ samples[i].r \in Nat \ {0} /\ samples[i].q \in Nat \ {0} /\ s2 \in Nat
  BY <1>3, DashboardAssumption
<1>5. AtLeast(floorToSpot(after), floorToSpot(before)) /\ AtLeast(spotPrice(after), spotPrice(before))
        => AtLeast(floorPrice(after), floorPrice(before))
  BY <1>4, FloorIsRatioTimesSpot DEF Pool
<1>6. shown'.before = before /\ shown'.after = after
      /\ shown'.intact = floorIntact(before, after, terms.minimum)
  BY <1>1
<1> HIDE DEF before, after
<1> QED BY <1>5, <1>6 DEF IntactFloorHolds, floorIntact

\* Every result that is shown of the pool is sound.
LEMMA ResultStep ==
  ASSUME DashboardTypeOK, IntactFloorHolds, PoolReportIsSound, Publication
  PROVE  IntactFloorHolds' /\ PoolReportIsSound'
<1>1. CASE Collect \/ TakeSample
  <2>1. UNCHANGED shown
    BY <1>1 DEF Collect, TakeSample
  <2> QED BY <2>1 DEF IntactFloorHolds, PoolReportIsSound
<1>2. CASE Assemble
  <2>1. shown'.kind # "comparison" /\ shown'.kind # "report"
    BY <1>2 DEF Assemble, TypeError
  <2> QED BY <2>1 DEF IntactFloorHolds, PoolReportIsSound
<1>3. CASE Report
  <2>1. shown' = [kind |-> "report", samples |-> samples, tolerance |-> terms.tolerance,
                  health |-> invariantReport(samples, terms.tolerance)]
    BY <1>3 DEF Report
  <2>2. samples \in Seq(Samples) /\ terms.tolerance \in 0 .. 10
    BY DashboardAssumption DEF DashboardTypeOK
  <2>3. /\ shown'.kind = "report" /\ shown'.samples = samples /\ shown'.tolerance = terms.tolerance
        /\ shown'.health = invariantReport(samples, terms.tolerance)
    BY <2>1
  <2>4. PoolReportIsSound'
    BY <2>2, <2>3, ReportIs DEF PoolReportIsSound
  <2> QED BY <2>3, <2>4 DEF IntactFloorHolds
<1>4. CASE Compare
  <2>1. shown'.kind # "report"
    BY <1>4 DEF Compare
  <2>2. IntactFloorHolds'
    BY <1>4, ComparisonIsSound DEF DashboardTypeOK
  <2> QED BY <2>1, <2>2 DEF PoolReportIsSound
<1> QED BY <1>1, <1>2, <1>3, <1>4 DEF Publication

\* To begin with nothing has arrived and nothing is shown.
LEMMA DashboardBegins == DashboardInit => DashboardInv
<1> SUFFICES ASSUME DashboardInit PROVE DashboardInv
  OBVIOUS
<1>1. terms \in Terms /\ entries \in Seq(Entries) /\ samples \in Seq(Samples) /\ shown.kind = "none"
  BY EmptySeq DEF DashboardInit, Nothing
<1> QED BY <1>1 DEF DashboardInv, DashboardTypeOK, BoardInv, IntactFloorHolds, PoolReportIsSound

\* Whatever arrives or is shown, results are made of what had arrived.
LEMMA DashboardStep == DashboardInv /\ [Publication]_dashboardVars => DashboardInv'
<1>1. ASSUME DashboardInv, Publication PROVE DashboardInv'
  BY <1>1, BoardStep, ResultStep DEF DashboardInv
<1>2. ASSUME DashboardInv, UNCHANGED dashboardVars PROVE DashboardInv'
  BY <1>2 DEF DashboardInv, DashboardTypeOK, BoardInv, IntactFloorHolds, PoolReportIsSound,
              dashboardVars
<1> QED BY <1>1, <1>2

\* The invariant of the dashboard holds at every moment.
LEMMA DashboardHolds == DashboardSpec => []DashboardInv
<1>1. [Publication /\ UNCHANGED vars]_<<vars, dashboardVars>> => [Publication]_dashboardVars
  OBVIOUS
<1> QED BY <1>1, DashboardBegins, DashboardStep, PTL DEF DashboardSpec

\* pfloor.js: a pool that floorIntact passes, at a spot price that has not fallen, has
\* lost nothing of its floor.
THEOREM IntactFloorIsSound == DashboardSpec => []IntactFloorHolds
<1>1. DashboardInv => IntactFloorHolds
  BY DEF DashboardInv
<1> QED BY <1>1, DashboardHolds, PTL

\* pfloor.js: in a series that is found healthy the product of the reserves falls by no
\* more than the tolerance compounds to, and one that is not has a drawdown beyond it,
\* in whichever order the samples came.
THEOREM PoolReportHolds == DashboardSpec => []PoolReportIsSound
<1>1. DashboardInv => PoolReportIsSound
  BY DEF DashboardInv
<1> QED BY <1>1, DashboardHolds, PTL

\* A board is made of the first entries, and a manifest only takes points away.
LEMMA WeighsDown == DashboardInv => ManifestWeighsDown
<1> DEFINE m == terms.manifest
<1> SUFFICES ASSUME DashboardInv, shown.kind = "snapshot", m # NoManifest,
                    \A e \in Entries : e.action \in DOMAIN m => m[e.action].class = e.class,
                    NEW i \in DOMAIN shown.board
             PROVE  LET row == shown.board[i] IN
                    /\ row.poa <= PointsInRole(entries, row.pioneer, "PoA", NoManifest)
                    /\ row.pou <= PointsInRole(entries, row.pioneer, "PoU", NoManifest)
  BY DEF ManifestWeighsDown, WithinCeilings
<1>1. DashboardTypeOK /\ entries \in Seq(Entries) /\ terms.window \in Nat
  BY DashboardAssumption DEF DashboardInv, DashboardTypeOK
<1>2. PICK n \in 0 .. Len(entries) :
        /\ n = 0 \/ compileManifest(m)
        /\ shown.board = leaderboard(SubSeq(entries, 1, n), m, terms.window)
  BY DEF DashboardInv, BoardInv
<1> DEFINE es == SubSeq(entries, 1, n)
           p == shown.board[i].pioneer
<1>3. es \in Seq(Entries) /\ Begins(es, entries) /\ (es = <<>> \/ compileManifest(m))
  BY <1>1, <1>2, FirstEntries
<1> HIDE DEF es, m
<1>4. shown.board = leaderboard(es, m, terms.window)
  BY <1>2 DEF es, m
<1>5. shown.board[i] = engagementScore(p, es, m, terms.window)
  BY <1>1, <1>3, <1>4, Board
<1> HIDE DEF p
<1>6. /\ shown.board[i].poa = PointsInRole(es, p, "PoA", m)
      /\ shown.board[i].pou = PointsInRole(es, p, "PoU", m)
  BY <1>5 DEF engagementScore
<1>7. compileManifest(NoManifest)
  BY DEF compileManifest, NoManifest
<1>8. ASSUME NEW role
      PROVE  PointsInRole(es, p, role, m) <= PointsInRole(entries, p, role, NoManifest)
  <2>1. PointsInRole(es, p, role, m) <= PointsInRole(es, p, role, NoManifest)
    BY <1>3, ManifestBelowCeilings
  <2>2. /\ PointsInRole(es, p, role, NoManifest) \in Nat
        /\ PointsInRole(entries, p, role, NoManifest) \in Nat
        /\ PointsInRole(es, p, role, NoManifest) <= PointsInRole(entries, p, role, NoManifest)
    BY <1>1, <1>3, <1>7, PointsGrow
  <2>3. Begins(es, es)
    BY <1>3, LenProperties DEF Begins
  <2>4. PointsInRole(es, p, role, m) \in Nat
    BY <1>3, <2>3, PointsGrow
  <2> QED BY <2>1, <2>2, <2>4
<1> QED BY <1>6, <1>8 DEF p

\* engagement.js: a manifest that keeps the classes of the events gives nobody on the
\* board more points than the ceilings alone would give for all the entries received.
THEOREM ManifestWeighsDownHolds == DashboardSpec => []ManifestWeighsDown
<1> QED BY WeighsDown, DashboardHolds, PTL

\* From this snapshot to the next no score falls and no pioneer drops out.
ScoresKept ==
  shown.kind = "snapshot" /\ shown'.kind = "snapshot" =>
    \A p \in Ranked(shown.board) :
      /\ p \in Ranked(shown'.board)
      /\ shown'.board[RowOf(shown'.board, p)].score >= shown.board[RowOf(shown.board, p)].score

\* Scores are kept by every publication, with whatever entries arrived since the last.
LEMMA ScoresStep ==
  ASSUME DashboardInv, Publication
  PROVE  ScoresKept
<1> DEFINE m == terms.manifest
           w == terms.window
<1> SUFFICES ASSUME shown.kind = "snapshot", shown'.kind = "snapshot",
                    NEW p \in Ranked(shown.board)
             PROVE  /\ p \in Ranked(shown'.board)
                    /\ shown'.board[RowOf(shown'.board, p)].score
                         >= shown.board[RowOf(shown.board, p)].score
  BY DEF ScoresKept
<1>1. DashboardTypeOK /\ entries \in Seq(Entries) /\ w \in Nat
  BY DashboardAssumption DEF DashboardInv, DashboardTypeOK
<1>2. PICK n \in 0 .. Len(entries) :
        /\ n = 0 \/ compileManifest(m)
        /\ shown.board = leaderboard(SubSeq(entries, 1, n), m, w)
  BY DEF DashboardInv, BoardInv
<1> DEFINE es == SubSeq(entries, 1, n)
<1>3. es \in Seq(Entries) /\ Begins(es, entries) /\ (es = <<>> \/ compileManifest(m))
  BY <1>1, <1>2, FirstEntries
<1> HIDE DEF es, m, w
<1>4. shown.board = leaderboard(es, m, w)
  BY <1>2 DEF es
<1>5. /\ \E i \in DOMAIN es : es[i].pioneer = p
      /\ shown.board[RowOf(shown.board, p)] = engagementScore(p, es, m, w)
  BY <1>1, <1>3, <1>4, OnBoard
<1>6. CASE UNCHANGED shown
  <2>1. Begins(es, es)
    BY <1>3, LenProperties DEF Begins
  <2>2. engagementScore(p, es, m, w).score \in Nat
    BY <1>1, <1>3, <2>1, ScoreGrows
  <2>3. engagementScore(p, es, m, w).score >= engagementScore(p, es, m, w).score
    BY <2>2
  <2> QED BY <1>5, <1>6, <2>3
<1>7. CASE Assemble
  <2>1. /\ entries = <<>> \/ compileManifest(m)
        /\ shown'.board = leaderboard(entries, m, w)
    BY <1>1, <1>7, AssembledBoard DEF m, w
  <2>2. \E i \in DOMAIN entries : entries[i].pioneer = p
    <3>1. DOMAIN es = 1 .. Len(es) /\ DOMAIN entries = 1 .. Len(entries)
          /\ Len(es) \in Nat /\ Len(entries) \in Nat
      BY <1>1, <1>3, LenProperties
    <3> QED BY <1>3, <1>5, <3>1 DEF Begins
  <2>3. /\ p \in Ranked(shown'.board)
        /\ shown'.board[RowOf(shown'.board, p)] = engagementScore(p, entries, m, w)
    BY <1>1, <2>1, <2>2, OnBoard
  <2>4. engagementScore(p, entries, m, w).score >= engagementScore(p, es, m, w).score
    BY <1>1, <1>3, <2>1, ScoreGrows
  <2> QED BY <1>5, <2>3, <2>4
<1>8. Assemble \/ UNCHANGED shown
  <2>1. ~Report /\ ~Compare
    BY DEF Report, Compare
  <2> QED BY <2>1 DEF Publication, Collect, TakeSample
<1> QED BY <1>6, <1>7, <1>8

\* From one snapshot to the next, with whatever entries arrived in between, no score
\* falls and no pioneer drops out.
THEOREM ScoreNeverFallsHolds == DashboardSpec => ScoreNeverFalls
<1>1. DashboardInv /\ [Publication /\ UNCHANGED vars]_<<vars, dashboardVars>> => [ScoresKept]_dashboardVars
  BY ScoresStep
<1>2. DashboardSpec => [][ScoresKept]_dashboardVars
  BY <1>1, DashboardHolds, PTL DEF DashboardSpec
<1> QED BY <1>2, PTL DEF ScoreNeverFalls, ScoresKept
=================================================================================
