--------------------------- MODULE ClassifierProofs ---------------------------
(***************************************************************************)
(* What the classifier and the advanced analyzer say of any samples.  Both *)
(* compare sums over the samples, so the proofs are inductions along them: *)
(* Climb is the principle, stated of sets.                                 *)
(***************************************************************************)
EXTENDS Analyzers, CollectionProofs, WellFoundedInduction

\* Induction up to n, from the least number that is missing.
LEMMA Climb ==
    ASSUME NEW n \in Nat, NEW S, 0 \in S, \A i \in 0..n - 1 : i \in S => i + 1 \in S
    PROVE  \A i \in 0..n : i \in S
<1> DEFINE missing == {i \in 0..n : i \notin S}
           Less == OpToRel(<, Nat)
<1> SUFFICES ASSUME missing # {} PROVE FALSE
  OBVIOUS
<1>1. missing \in SUBSET Nat
  OBVIOUS
<1> HIDE DEF missing
<1>2. PICK x \in missing : \A y \in missing : <<y, x>> \notin Less
  BY <1>1, NatLessThanWellFounded, WFMin
<1>3. \A y \in Nat : y \in missing /\ y < x => <<y, x>> \in Less
  BY <1>1 DEF OpToRel
<1>4. \A y \in Nat : y \in missing => ~ (y < x)
  BY <1>2, <1>3
<1>5. x \in 0..n /\ x # 0 /\ x - 1 \in 0..n - 1 /\ x - 1 < x
  BY DEF missing
<1>6. x - 1 \in S
  BY <1>4, <1>5 DEF missing
<1>7. x \in S
  BY <1>5, <1>6
<1> QED
  BY <1>7 DEF missing

-----------------------------------------------------------------------------
(* Sums.                                                                   *)

\* g sums s up to n.
Adds(g, s, n) ==
    /\ g \in [0..n -> Int]
    /\ g[0] = 0 /\ \A i \in 1..n : g[i] = g[i - 1] + s[i]

LEMMA AddsExists ==
    ASSUME NEW s \in Seq(Int)
    PROVE  \E g : Adds(g, s, Len(s))
<1> DEFINE S == {k \in 0..Len(s) : \E g : Adds(g, s, k)}
<1>0. Len(s) \in Nat /\ \A i \in 1..Len(s) : s[i] \in Int
  OBVIOUS
<1>1. 0 \in S
  <2> DEFINE g == [i \in 0..0 |-> 0]
  <2>1. Adds(g, s, 0)
    BY DEF Adds
  <2> QED
    BY <1>0, <2>1
<1>2. ASSUME NEW k \in 0..Len(s) - 1, k \in S PROVE k + 1 \in S
  <2>1. PICK g : Adds(g, s, k)
    BY <1>2
  <2> DEFINE h == [i \in 0..k + 1 |-> IF i = k + 1 THEN g[k] + s[k + 1] ELSE g[i]]
  <2>2. Adds(h, s, k + 1)
    <3>1. k \in Nat /\ k + 1 \in Nat /\ k + 1 \in 1..Len(s) /\ 0 \in 0..k + 1 /\ k + 1 # 0
      BY <1>0
    <3>2. h[0] = 0
      BY <2>1, <3>1 DEF Adds
    <3>3. h[k + 1] = h[(k + 1) - 1] + s[k + 1]
      BY <3>1
    <3>4. \A i \in 1..k : h[i] = h[i - 1] + s[i]
      BY <2>1, <3>1 DEF Adds
    <3>5. h \in [0..k + 1 -> Int]
      <4>1. \A i \in 0..k : g[i] \in Int
        BY <2>1 DEF Adds
      <4>2. s[k + 1] \in Int /\ k \in 0..k /\ \A i \in 0..k + 1 : i # k + 1 => i \in 0..k
        BY <1>0, <3>1
      <4> QED
        BY <4>1, <4>2
    <3>6. \A i \in 1..k + 1 : i \in 1..k \/ i = k + 1
      BY <3>1
    <3> HIDE DEF h
    <3> QED
      BY <3>2, <3>3, <3>4, <3>5, <3>6 DEF Adds
  <2> HIDE DEF h
  <2> QED
    BY <1>0, <2>2
<1> HIDE DEF S
<1>3. \A k \in 0..Len(s) - 1 : k \in S => k + 1 \in S
  BY <1>2
<1>4. \A i \in 0..Len(s) : i \in S
  BY <1>0, <1>1, <1>3, Climb
<1> QED
  BY <1>0, <1>4 DEF S

\* The recursion in Sums has a solution, and it is what Sums says.
LEMMA SumsAdd ==
    ASSUME NEW s \in Seq(Int)
    PROVE  /\ Len(s) \in Nat /\ \A i \in 1..Len(s) : s[i] \in Int
           /\ \A i \in 0..Len(s) : Sums(s)[i] \in Int
           /\ Sums(s)[0] = 0 /\ \A i \in 1..Len(s) : Sums(s)[i] = Sums(s)[i - 1] + s[i]
           /\ Total(s) = Sums(s)[Len(s)] /\ Total(s) \in Int
<1> DEFINE Right(g) == g = [i \in 0..Len(s) |-> IF i = 0 THEN 0 ELSE g[i - 1] + s[i]]
<1>0. Len(s) \in Nat /\ \A i \in 1..Len(s) : s[i] \in Int
  OBVIOUS
<1>1. PICK g : Adds(g, s, Len(s))
  BY AddsExists
<1>2. Right(g)
  BY <1>0, <1>1 DEF Adds
<1>3. Sums(s) = CHOOSE h : Right(h)
  BY DEF Sums
<1>4. Right(Sums(s))
  BY <1>2, <1>3, Zenon
<1> DEFINE f == Sums(s)
           Agreed == {i \in 0..Len(s) : f[i] = g[i]}
<1> HIDE DEF f
<1>5. f[0] = 0 /\ \A i \in 1..Len(s) : f[i] = f[i - 1] + s[i]
  BY <1>0, <1>4 DEF f
<1>6. 0 \in Agreed /\ \A k \in 0..Len(s) - 1 : k \in Agreed => k + 1 \in Agreed
  BY <1>0, <1>1, <1>5 DEF Adds
<1>7. \A i \in 0..Len(s) : i \in Agreed
  BY <1>0, <1>6, Climb
<1>8. \A i \in 0..Len(s) : f[i] \in Int
  BY <1>1, <1>7 DEF Adds
<1>9. Total(s) = f[Len(s)]
  BY DEF f, Total
<1> QED
  BY <1>0, <1>5, <1>8, <1>9 DEF f

LEMMA TotalNatural ==
    ASSUME NEW s \in Seq(Nat)
    PROVE  s \in Seq(Int) /\ Total(s) \in Nat
<1>1. s \in Seq(Int) /\ \A i \in 1..Len(s) : s[i] \in Nat
  OBVIOUS
<1> DEFINE S == {i \in 0..Len(s) : Sums(s)[i] \in Nat}
<1>2. 0 \in S /\ \A i \in 0..Len(s) - 1 : i \in S => i + 1 \in S
  BY <1>1, SumsAdd
<1>3. \A i \in 0..Len(s) : i \in S
  BY <1>1, <1>2, SumsAdd, Climb
<1> QED
  BY <1>1, <1>3, SumsAdd

LEMMA TotalScaled ==
    ASSUME NEW s \in Seq(Int), NEW u \in Seq(Int), NEW k \in Int,
           Len(u) = Len(s), \A i \in 1..Len(s) : u[i] = k * s[i]
    PROVE  Total(u) = k * Total(s)
<1> DEFINE S == {i \in 0..Len(s) : Sums(u)[i] = k * Sums(s)[i]}
<1>1. 0 \in S
  BY SumsAdd
<1>2. ASSUME NEW i \in 0..Len(s) - 1, i \in S PROVE i + 1 \in S
  <2>1. /\ Sums(u)[i] \in Int /\ Sums(s)[i] \in Int /\ s[i + 1] \in Int
        /\ i + 1 \in 0..Len(s) /\ u[i + 1] = k * s[i + 1]
        /\ Sums(u)[i + 1] = Sums(u)[i] + u[i + 1]
        /\ Sums(s)[i + 1] = Sums(s)[i] + s[i + 1]
    <3>1. i \in 0..Len(s) /\ i + 1 \in 1..Len(s) /\ i + 1 \in 0..Len(s) /\ (i + 1) - 1 = i
      OBVIOUS
    <3>2. s[i + 1] \in Int /\ u[i + 1] = k * s[i + 1]
      BY <3>1
    <3>3. Sums(s)[i] \in Int /\ Sums(s)[i + 1] = Sums(s)[i] + s[i + 1]
      BY <3>1, SumsAdd
    <3>4. Sums(u)[i] \in Int /\ Sums(u)[i + 1] = Sums(u)[i] + u[i + 1]
      BY <3>1, SumsAdd
    <3> QED
      BY <3>1, <3>2, <3>3, <3>4
  <2>2. k * (Sums(s)[i] + s[i + 1]) = k * Sums(s)[i] + k * s[i + 1]
    BY <2>1
  <2> QED
    BY <1>2, <2>1, <2>2
<1>3. \A i \in 0..Len(s) : i \in S
  <2> HIDE DEF S
  <2> QED
    BY <1>1, <1>2, SumsAdd, Climb
<1>4. Sums(u)[Len(s)] = k * Sums(s)[Len(s)]
  BY <1>3, SumsAdd
<1>5. Total(s) = Sums(s)[Len(s)]
  BY SumsAdd
<1>6. Total(u) = Sums(u)[Len(s)]
  BY SumsAdd
<1> QED
  BY <1>4, <1>5, <1>6

\* As many terms of B or more as K has make a sum of B times their number or more.
LEMMA TotalExceeds ==
    ASSUME NEW v \in Seq(Nat), NEW B \in Nat, NEW K, K \subseteq 1..Len(v),
           \A i \in K : v[i] >= B
    PROVE  Cardinality(K) \in Nat /\ Total(v) >= B * Cardinality(K)
<1> DEFINE Upto(i) == K \cap (1..i)
           S == {i \in 0..Len(v) : /\ IsFiniteSet(Upto(i)) /\ Cardinality(Upto(i)) \in Nat
                                   /\ Sums(v)[i] >= B * Cardinality(Upto(i))}
<1>0. v \in Seq(Int) /\ Len(v) \in Nat
  OBVIOUS
<1>1. 0 \in S
  <2>1. Upto(0) = {}
    BY <1>0
  <2> QED
    BY <1>0, <2>1, FS_EmptySet, SumsAdd
<1>2. ASSUME NEW i \in 0..Len(v) - 1, i \in S PROVE i + 1 \in S
  <2>1. /\ Sums(v)[i] \in Int /\ v[i + 1] \in Nat /\ i + 1 \in 0..Len(v)
        /\ Sums(v)[i + 1] = Sums(v)[i] + v[i + 1]
    BY <1>0, SumsAdd
  <2>2. CASE i + 1 \in K
    <3>1. Upto(i + 1) = Upto(i) \cup {i + 1} /\ i + 1 \notin Upto(i)
      BY <1>0, <2>2
    <3> HIDE DEF Upto
    <3>2. /\ IsFiniteSet(Upto(i)) /\ Cardinality(Upto(i)) \in Nat
          /\ Sums(v)[i] >= B * Cardinality(Upto(i))
      BY <1>2
    <3>3. IsFiniteSet(Upto(i + 1)) /\ Cardinality(Upto(i + 1)) = Cardinality(Upto(i)) + 1
      BY <3>1, <3>2, FS_AddElement
    <3> DEFINE c == Cardinality(Upto(i))
    <3>4. B * (c + 1) = B * c + B /\ B * c \in Nat
      <4>1. c \in Nat
        BY <3>2
      <4> HIDE DEF c
      <4> QED
        BY <4>1
    <3>5. v[i + 1] >= B
      BY <2>2
    <3>6. Sums(v)[i + 1] >= B * (c + 1)
      <4> HIDE DEF c
      <4>1. Sums(v)[i] >= B * c
        BY <3>2 DEF c
      <4> QED
        BY <2>1, <3>4, <3>5, <4>1
    <3>7. Cardinality(Upto(i + 1)) \in Nat /\ Sums(v)[i + 1] >= B * Cardinality(Upto(i + 1))
      BY <3>2, <3>3, <3>6
    <3> QED
      BY <2>1, <3>3, <3>7
  <2>3. CASE i + 1 \notin K
    <3>1. Upto(i + 1) = Upto(i)
      BY <1>0, <2>3
    <3> HIDE DEF Upto
    <3>2. Cardinality(Upto(i)) \in Nat /\ B * Cardinality(Upto(i)) \in Nat
      BY <1>2
    <3> QED
      BY <1>2, <2>1, <3>1, <3>2
  <2> QED
    BY <2>2, <2>3
<1>3. \A i \in 0..Len(v) : i \in S
  <2> HIDE DEF S
  <2> QED
    BY <1>0, <1>1, <1>2, Climb
<1>4. Upto(Len(v)) = K
  BY <1>0
<1> HIDE DEF Upto
<1>5. /\ Cardinality(Upto(Len(v))) \in Nat
      /\ Sums(v)[Len(v)] >= B * Cardinality(Upto(Len(v)))
  BY <1>0, <1>3
<1>6. Total(v) = Sums(v)[Len(v)]
  BY <1>0, SumsAdd
<1> QED
  BY <1>4, <1>5, <1>6

-----------------------------------------------------------------------------
(* Deviations from the mean.                                               *)

LEMMA SquaresTyped ==
    ASSUME NEW s \in Seq(Nat)
    PROVE  /\ Squares(s) \in Seq(Nat) /\ Len(Squares(s)) = Len(s)
           /\ \A i \in 1..Len(s) : Squares(s)[i] = s[i] * s[i]
<1>1. DOMAIN s = 1..Len(s) /\ Len(s) \in Nat /\ \A i \in 1..Len(s) : s[i] * s[i] \in Nat
  OBVIOUS
<1> QED
  BY <1>1 DEF Squares

\* The squares of Len(s) times the deviations from the mean.
Deviations(s) ==
    [i \in 1..Len(s) |-> (Len(s) * s[i] - Total(s)) * (Len(s) * s[i] - Total(s))]

LEMMA SquareNatural == ASSUME NEW x \in Int PROVE x * x \in Nat /\ (x # 0 => x * x > 0)
<1>1. CASE x >= 0
  BY <1>1
<1>2. CASE x < 0
  <2>1. x * x = (0 - x) * (0 - x) /\ 0 - x \in Nat
    BY <1>2
  <2> QED
    BY <1>2, <2>1
<1> QED
  BY <1>1, <1>2

LEMMA DeviationsTyped ==
    ASSUME NEW s \in Seq(Nat)
    PROVE  /\ Deviations(s) \in Seq(Nat) /\ Len(Deviations(s)) = Len(s)
           /\ \A i \in 1..Len(s) : Deviations(s)[i] =
                 (Len(s) * s[i] - Total(s)) * (Len(s) * s[i] - Total(s))
<1> DEFINE d(i) == Len(s) * s[i] - Total(s)
<1>1. Len(s) \in Nat /\ \A i \in 1..Len(s) : d(i) \in Int
  BY TotalNatural
<1> HIDE DEF d
<1>2. \A i \in 1..Len(s) : d(i) * d(i) \in Nat
  BY <1>1, SquareNatural
<1>3. Deviations(s) = [i \in 1..Len(s) |-> d(i) * d(i)]
  BY DEF Deviations, d
<1>4. /\ Deviations(s) \in Seq(Nat) /\ Len(Deviations(s)) = Len(s)
      /\ \A i \in 1..Len(s) : Deviations(s)[i] = d(i) * d(i)
  BY <1>1, <1>2, <1>3
<1> QED
  BY <1>4 DEF d

LEMMA DeviationStep ==
    ASSUME NEW n \in Int, NEW t0 \in Int, NEW q \in Int, NEW b \in Int, NEW x \in Int, NEW i \in Int
    PROVE  (n * n * q - 2 * n * t0 * b + i * t0 * t0) + (n * x - t0) * (n * x - t0)
             = n * n * (q + x * x) - 2 * n * t0 * (b + x) + (i + 1) * t0 * t0
OBVIOUS

LEMMA DeviationEnd ==
    ASSUME NEW n \in Int, NEW t0 \in Int, NEW q \in Int
    PROVE  n * (n * q - t0 * t0) = n * n * q - 2 * n * t0 * t0 + n * t0 * t0
OBVIOUS

\* Spread is what calculateStandardDeviation computes: the sum of the squared
\* deviations from the mean, times the number of samples
\* (workload_classifier.go:339-350).
THEOREM SpreadMeasuresDeviation ==
    ASSUME NEW s \in Seq(Nat)
    PROVE  Len(s) * Spread(s) = Total(Deviations(s))
<1> DEFINE n == Len(s)
           T == Total(s)
           q == Sums(Squares(s))
           b == Sums(s)
           e == Sums(Deviations(s))
           Sum(i) == n * n * q[i] - 2 * n * T * b[i] + i * T * T
           S == {i \in 0..n : e[i] = Sum(i)}
<1>0. s \in Seq(Int) /\ Squares(s) \in Seq(Int) /\ Deviations(s) \in Seq(Int)
  BY SquaresTyped, DeviationsTyped
<1>1. /\ n \in Nat /\ T \in Int /\ T = b[n] /\ \A i \in 1..n : s[i] \in Int
      /\ \A i \in 0..n : b[i] \in Int
      /\ b[0] = 0 /\ \A i \in 1..n : b[i] = b[i - 1] + s[i]
  BY <1>0, SumsAdd
<1>2. /\ \A i \in 0..n : q[i] \in Int
      /\ q[0] = 0 /\ \A i \in 1..n : q[i] = q[i - 1] + s[i] * s[i]
      /\ Total(Squares(s)) = q[n]
  BY <1>0, SumsAdd, SquaresTyped
<1>3. /\ \A i \in 0..n : e[i] \in Int
      /\ e[0] = 0 /\ \A i \in 1..n : e[i] = e[i - 1] + (n * s[i] - T) * (n * s[i] - T)
      /\ Total(Deviations(s)) = e[n]
  BY <1>0, SumsAdd, DeviationsTyped
<1>4. Spread(s) = n * q[n] - T * T
  BY <1>2 DEF Spread
<1> HIDE DEF n, T, q, b, e
<1>5. 0 \in S
  BY <1>1, <1>2, <1>3
<1>6. ASSUME NEW i \in 0..n - 1, i \in S PROVE i + 1 \in S
  <2>1. /\ i + 1 \in 1..n /\ i \in 0..n /\ s[i + 1] \in Int /\ (i + 1) - 1 = i
        /\ q[i] \in Int /\ b[i] \in Int
    BY <1>1, <1>2
  <2>2. /\ e[i + 1] = Sum(i) + (n * s[i + 1] - T) * (n * s[i + 1] - T)
        /\ b[i + 1] = b[i] + s[i + 1] /\ q[i + 1] = q[i] + s[i + 1] * s[i + 1]
    BY <1>1, <1>2, <1>3, <1>6, <2>1
  <2>3. n \in Int /\ i \in Int
    BY <1>1, <2>1
  <2>4. Sum(i) + (n * s[i + 1] - T) * (n * s[i + 1] - T)
          = n * n * (q[i] + s[i + 1] * s[i + 1]) - 2 * n * T * (b[i] + s[i + 1])
              + (i + 1) * T * T
    <3> DEFINE x == s[i + 1]
               q0 == q[i]
               b0 == b[i]
    <3>1. x \in Int /\ q0 \in Int /\ b0 \in Int /\ T \in Int
      BY <1>1, <2>1
    <3> HIDE DEF x, q0, b0
    <3>2. (n * n * q0 - 2 * n * T * b0 + i * T * T) + (n * x - T) * (n * x - T)
            = n * n * (q0 + x * x) - 2 * n * T * (b0 + x) + (i + 1) * T * T
      BY <2>3, <3>1, DeviationStep
    <3> QED
      BY <3>2 DEF x, q0, b0
  <2>5. e[i + 1] = Sum(i + 1)
    BY <2>2, <2>4
  <2>6. i + 1 \in 0..n
    BY <1>1, <2>1
  <2> HIDE DEF Sum
  <2> QED
    BY <2>5, <2>6
<1>7. e[n] = Sum(n)
  <2> HIDE DEF S
  <2>1. \A i \in 0..n : i \in S
    BY <1>1, <1>5, <1>6, Climb
  <2> QED
    BY <1>1, <2>1 DEF S
<1>8. n * (n * q[n] - T * T) = n * n * q[n] - 2 * n * T * T + n * T * T
  <2>1. n \in Int /\ q[n] \in Int
    BY <1>1, <1>2
  <2> QED
    BY <1>1, <2>1, DeviationEnd
<1> QED
  BY <1>1, <1>3, <1>4, <1>7, <1>8 DEF n

LEMMA FewExceed ==
    ASSUME NEW n \in Nat, n > 0, NEW d \in Nat, NEW k \in Nat, (n - 1) * d >= (4 * d + 1) * k
    PROVE  4 * k < n
<1>1. (4 * d + 1) * k = d * (4 * k) + k
  OBVIOUS
<1>2. ASSUME 4 * k >= n PROVE FALSE
  <2>1. d * (4 * k) >= d * n
    BY <1>2
  <2>2. (n - 1) * d = d * n - d
    OBVIOUS
  <2>3. d * n - d >= d * n + k
    BY <1>1, <2>1, <2>2
  <2> QED
    BY <1>2, <2>3
<1> QED
  BY <1>2

\* Fewer than a quarter of the samples lie more than two deviations above the mean,
\* whatever they are: too few for calculateSpikeFrequency to reach the three tenths
\* that determineWorkloadClass asks of a bursty workload
\* (workload_classifier.go:457-472, 198-201).
THEOREM SpikesAreFew ==
    ASSUME NEW s \in Seq(Nat), Len(s) > 0
    PROVE  Spikes(s) \in Nat /\ 4 * Spikes(s) < Len(s)
<1> DEFINE n == Len(s)
           d == Deviations(s)
           D == Total(d)
           v == [i \in 1..n |-> (n - 1) * d[i]]
           above(i) == n * s[i] - Total(s)
           K == {i \in DOMAIN s : above(i) > 0 /\ (n - 1) * above(i) * above(i) > 4 * n * Spread(s)}
<1>1. /\ n \in Nat /\ n > 0 /\ d \in Seq(Nat) /\ d \in Seq(Int) /\ Len(d) = n
      /\ \A i \in 1..n : d[i] \in Nat
      /\ D \in Nat
  <2>1. n \in Nat /\ n > 0
    OBVIOUS
  <2>2. d \in Seq(Nat) /\ Len(d) = n
    BY DeviationsTyped
  <2> HIDE DEF d, n
  <2>3. d \in Seq(Int) /\ D \in Nat /\ \A i \in 1..n : d[i] \in Nat
    BY <2>2, TotalNatural
  <2> QED
    BY <2>1, <2>2, <2>3
<1>2. D = n * Spread(s)
  BY SpreadMeasuresDeviation
<1>3. \A i \in 1..n : (n - 1) * d[i] \in Nat
  <2> SUFFICES ASSUME NEW i \in 1..n PROVE (n - 1) * d[i] \in Nat
    OBVIOUS
  <2>1. n - 1 \in Nat /\ d[i] \in Nat
    BY <1>1
  <2> HIDE DEF n, d
  <2> QED
    BY <2>1
<1>4. v \in Seq(Nat) /\ v \in Seq(Int) /\ Len(v) = n /\ \A i \in 1..n : v[i] = (n - 1) * d[i]
  BY <1>1, <1>3
<1>5. Total(v) = (n - 1) * D
  <2> HIDE DEF v, d, n
  <2> QED
    BY <1>1, <1>4, n - 1 \in Int, TotalScaled
<1>6. \A i \in 1..n : above(i) \in Int /\ d[i] = above(i) * above(i)
  <2>1. \A i \in 1..n : d[i] = above(i) * above(i)
    BY DeviationsTyped
  <2>2. Total(s) \in Int /\ \A i \in 1..n : s[i] \in Int
    BY TotalNatural
  <2> QED
    BY <1>1, <2>1, <2>2
<1>7. Spread(s) \in Int
  BY SquaresTyped, TotalNatural DEF Spread
<1>8. K \subseteq 1..n
  OBVIOUS
<1>9. ASSUME NEW i \in K PROVE v[i] >= 4 * D + 1
  <2>1. i \in 1..n /\ (n - 1) * above(i) * above(i) > 4 * n * Spread(s)
    BY <1>9
  <2> HIDE DEF n, d, D, v, above, K
  <2>2. (n - 1) * above(i) * above(i) = (n - 1) * (above(i) * above(i))
    BY <1>1, <1>6, <2>1
  <2>3. 4 * n * Spread(s) = 4 * (n * Spread(s))
    BY <1>1, <1>7
  <2>4. (n - 1) * d[i] \in Nat
    BY <1>3, <2>1
  <2> QED
    BY <1>1, <1>2, <1>4, <1>6, <2>1, <2>2, <2>3, <2>4
<1>10. Cardinality(K) = Spikes(s)
  BY DEF Spikes
<1> HIDE DEF n, d, D, v, K
<1>11. Cardinality(K) \in Nat /\ Total(v) >= (4 * D + 1) * Cardinality(K)
  <2>1. 4 * D + 1 \in Nat
    BY <1>1
  <2> QED
    BY <1>4, <1>8, <1>9, <2>1, TotalExceeds
<1> QED
  BY <1>1, <1>5, <1>10, <1>11, FewExceed DEF n

\* The spread is never negative.
LEMMA SpreadNatural ==
    ASSUME NEW s \in Seq(Nat), Len(s) > 0
    PROVE  Spread(s) \in Nat
<1>1. Total(Deviations(s)) \in Nat
  BY DeviationsTyped, TotalNatural
<1>2. Spread(s) \in Int
  BY SquaresTyped, TotalNatural DEF Spread
<1>3. Spread(s) < 0 => Len(s) * Spread(s) < 0
  BY <1>2
<1> QED
  BY <1>1, <1>2, <1>3, SpreadMeasuresDeviation

-----------------------------------------------------------------------------
(* The trend.                                                              *)

Weighted(s) == [i \in DOMAIN s |-> (i - 1) * s[i]]

LEMMA WeightedTyped ==
    ASSUME NEW s \in Seq(Int)
    PROVE  /\ Weighted(s) \in Seq(Int) /\ Len(Weighted(s)) = Len(s)
           /\ \A i \in 1..Len(s) : Weighted(s)[i] = (i - 1) * s[i]
<1>1. DOMAIN s = 1..Len(s) /\ Len(s) \in Nat /\ \A i \in 1..Len(s) : (i - 1) * s[i] \in Int
  OBVIOUS
<1> QED
  BY <1>1 DEF Weighted

LEMMA RiseTyped ==
    ASSUME NEW s \in Seq(Int)
    PROVE  /\ Rise(s) = 2 * Total(Weighted(s)) - (Len(s) - 1) * Total(s)
           /\ Rise(s) \in Int
  BY WeightedTyped, SumsAdd DEF Rise, Weighted

LEMMA RiseScaled ==
    ASSUME NEW s \in Seq(Int), NEW u \in Seq(Int), NEW k \in Int,
           Len(u) = Len(s), \A i \in 1..Len(s) : u[i] = k * s[i]
    PROVE  Rise(u) = k * Rise(s)
<1>1. Total(u) = k * Total(s)
  BY TotalScaled
<1>2. Total(Weighted(u)) = k * Total(Weighted(s))
  <2>1. \A i \in 1..Len(s) : Weighted(u)[i] = k * Weighted(s)[i]
    <3> SUFFICES ASSUME NEW i \in 1..Len(s) PROVE (i - 1) * u[i] = k * ((i - 1) * s[i])
      BY WeightedTyped
    <3>1. i \in Int /\ s[i] \in Int /\ u[i] = k * s[i]
      BY SumsAdd
    <3> QED
      BY <3>1
  <2> QED
    BY <2>1, WeightedTyped, TotalScaled
<1>3. Total(s) \in Int /\ Total(Weighted(s)) \in Int /\ Len(s) \in Int
  BY WeightedTyped, SumsAdd
<1>4. 2 * (k * Total(Weighted(s))) - (Len(s) - 1) * (k * Total(s))
        = k * (2 * Total(Weighted(s)) - (Len(s) - 1) * Total(s))
  BY <1>3
<1> QED
  BY <1>1, <1>2, <1>4, RiseTyped

LEMMA TimesGrows ==
    ASSUME NEW k \in Nat, NEW x \in Int, NEW y \in Int, x <= y
    PROVE  k * x <= k * y
<1>1. k * (y - x) = k * y - k * x /\ y - x \in Nat
  OBVIOUS
<1> QED
  BY <1>1

LEMMA RiseStep ==
    ASSUME NEW i \in Nat, NEW w \in Int, NEW b \in Int, NEW x \in Int,
           b <= i * x, 2 * w - (i - 1) * b >= 0
    PROVE  /\ 2 * (w + ((i + 1) - 1) * x) - ((i + 1) - 1) * (b + x) >= 0
           /\ b + x <= (i + 1) * x
<1>1. /\ 2 * (w + ((i + 1) - 1) * x) = 2 * w + 2 * (i * x)
      /\ ((i + 1) - 1) * (b + x) = i * b + i * x
      /\ (i - 1) * b = i * b - b /\ (i + 1) * x = i * x + x
  OBVIOUS
<1>2. i * x \in Int /\ i * b \in Int
  OBVIOUS
<1> QED
  BY <1>1, <1>2

\* The regression line of samples that never fall does not fall: it rises with
\* each sample by what the sample exceeds the mean of those before it.
LEMMA MonotoneRises ==
    ASSUME NEW s \in Seq(Int), Monotone(s)
    PROVE  Rise(s) >= 0
<1> DEFINE n == Len(s)
           b == Sums(s)
           w == Sums(Weighted(s))
           S == {i \in 0..n : /\ 2 * w[i] - (i - 1) * b[i] >= 0
                              /\ i > 0 => b[i] <= i * s[i]}
<1>1. /\ n \in Nat /\ \A i \in 1..n : s[i] \in Int
      /\ \A i \in 0..n : b[i] \in Int
      /\ b[0] = 0 /\ \A i \in 1..n : b[i] = b[i - 1] + s[i]
      /\ Total(s) = b[n]
  BY SumsAdd
<1>2. /\ \A i \in 0..n : w[i] \in Int
      /\ w[0] = 0 /\ \A i \in 1..n : w[i] = w[i - 1] + (i - 1) * s[i]
      /\ Total(Weighted(s)) = w[n]
  BY SumsAdd, WeightedTyped
<1>3. \A i \in 1..n - 1 : s[i] <= s[i + 1]
  <2> SUFFICES ASSUME NEW i \in 1..n - 1 PROVE s[i] <= s[i + 1]
    OBVIOUS
  <2>1. i + 1 \in 2..Len(s) /\ (i + 1) - 1 = i
    BY <1>1
  <2> QED
    BY <2>1 DEF Monotone
<1> HIDE DEF n, b, w
<1>4. 0 \in S
  BY <1>1, <1>2
<1>5. ASSUME NEW i \in 0..n - 1, i \in S PROVE i + 1 \in S
  <2> DEFINE x == s[i + 1]
  <2>1. /\ i \in Nat /\ i + 1 \in 1..n /\ (i + 1) - 1 = i
        /\ w[i] \in Int /\ b[i] \in Int /\ x \in Int
        /\ b[i + 1] = b[i] + x /\ w[i + 1] = w[i] + ((i + 1) - 1) * x
    BY <1>1, <1>2
  <2>2. b[i] <= i * x
    <3>1. CASE i = 0
      BY <1>1, <2>1, <3>1
    <3>2. CASE i > 0
      <4>1. i \in 1..n - 1 /\ s[i] \in Int /\ s[i] <= x /\ b[i] <= i * s[i]
        BY <1>1, <1>3, <1>5, <3>2
      <4>2. i * s[i] <= i * x
        BY <2>1, <4>1, TimesGrows
      <4>3. i * s[i] \in Int /\ i * x \in Int
        BY <2>1, <4>1
      <4>4. \A l, m, o \in Int : l <= m /\ m <= o => l <= o
        OBVIOUS
      <4> QED
        BY <2>1, <4>1, <4>2, <4>3, <4>4, Zenon
    <3> QED
      BY <2>1, <3>1, <3>2
  <2>3. 2 * w[i] - (i - 1) * b[i] >= 0
    BY <1>5
  <2> HIDE DEF x
  <2>4. /\ 2 * (w[i] + ((i + 1) - 1) * x) - ((i + 1) - 1) * (b[i] + x) >= 0
        /\ b[i] + x <= (i + 1) * x
    BY <2>1, <2>2, <2>3, RiseStep
  <2>5. 2 * w[i + 1] - ((i + 1) - 1) * b[i + 1] >= 0 /\ b[i + 1] <= (i + 1) * x
    BY <2>1, <2>4
  <2>6. b[i + 1] <= (i + 1) * s[i + 1]
    BY <2>5 DEF x
  <2>7. i + 1 \in 0..n
    BY <1>1, <2>1
  <2> QED
    BY <2>5, <2>6, <2>7
<1>6. n \in S
  <2> HIDE DEF S
  <2>1. \A i \in 0..n : i \in S
    BY <1>1, <1>4, <1>5, Climb
  <2> QED
    BY <1>1, <2>1
<1> QED
  BY <1>1, <1>2, <1>6, RiseTyped DEF n

LEMMA AntitoneFalls ==
    ASSUME NEW s \in Seq(Int), Antitone(s)
    PROVE  Rise(s) <= 0
<1> DEFINE u == [i \in 1..Len(s) |-> (-1) * s[i]]
<1>1. Len(s) \in Nat /\ \A i \in 1..Len(s) : s[i] \in Int /\ (-1) * s[i] \in Int
  BY SumsAdd
<1>2. u \in Seq(Int) /\ Len(u) = Len(s) /\ \A i \in 1..Len(s) : u[i] = (-1) * s[i]
  BY <1>1
<1> HIDE DEF u
<1>3. Monotone(u)
  <2> SUFFICES ASSUME NEW i \in 2..Len(s) PROVE u[i - 1] <= u[i]
    BY <1>2 DEF Monotone
  <2>1. s[i - 1] >= s[i] /\ i \in 1..Len(s) /\ i - 1 \in 1..Len(s)
    BY <1>1 DEF Antitone
  <2>2. /\ u[i - 1] = (-1) * s[i - 1] /\ s[i - 1] \in Int
        /\ u[i] = (-1) * s[i] /\ s[i] \in Int
    BY <1>1, <1>2, <2>1
  <2> QED
    BY <2>1, <2>2
<1>4. Rise(u) >= 0 /\ Rise(u) = (-1) * Rise(s)
  BY <1>2, <1>3, MonotoneRises, RiseScaled
<1> QED
  BY <1>4, RiseTyped

LEMMA Quotient ==
    ASSUME NEW n \in Nat, n > 0, NEW m \in Int
    PROVE  (n * m) \div n = m
  OBVIOUS

\* A trend has the sign of the rise.
LEMMA TrendHasSign ==
    ASSUME NEW s \in Seq(Nat)
    PROVE  /\ Rise(s) >= 0 => Trend(s).direction # "decreasing"
           /\ Rise(s) <= 0 => Trend(s).direction # "increasing"
<1> DEFINE share == Total(s) * (Run(s) \div Len(s))
<1>1. Len(s) \in Nat /\ Total(s) \in Nat /\ Rise(s) \in Int /\ TrendSamples \in Nat \ {0, 1}
  BY TotalNatural, RiseTyped, ClassifierAssumption
<1>2. CASE Len(s) < TrendSamples
  BY <1>2 DEF Trend
<1>3. CASE Len(s) > 1
  <2>1. Len(s) * Len(s) - 1 \in Nat /\ Len(s) * Len(s) - 1 > 0
    BY <1>1, <1>3
  <2>2. Run(s) \div Len(s) = Len(s) * Len(s) - 1
    BY <1>1, <2>1, Quotient DEF Run
  <2>3. Total(s) # 0 => share > 0
    BY <1>1, <2>1, <2>2
  <2> HIDE DEF share
  <2>4. share \in Int
    BY <1>1, <2>1, <2>2 DEF share
  <2>5. Rise(s) = 0 /\ Total(s) # 0 => 6000 * Magnitude(Rise(s)) < share
    BY <2>3, <2>4 DEF Magnitude
  <2> QED
    BY <1>1, <2>5 DEF Trend, share
<1> QED
  BY <1>1, <1>2, <1>3

-----------------------------------------------------------------------------
(* Units.                                                                  *)

LEMMA Cancels ==
    ASSUME NEW k \in Nat, k > 0, NEW x \in Int, NEW y \in Int
    PROVE  /\ k * x > k * y <=> x > y
           /\ k * x < k * y <=> x < y
           /\ k * x > 0 <=> x > 0
           /\ k * x < 0 <=> x < 0
           /\ k * x = 0 <=> x = 0
<1>1. k * (x - y) = k * x - k * y /\ x - y \in Int
  OBVIOUS
<1>2. \A z \in Int : (k * z > 0 <=> z > 0) /\ (k * z < 0 <=> z < 0)
  OBVIOUS
<1>3. k * x \in Int /\ k * y \in Int
  OBVIOUS
<1> QED
  BY <1>1, <1>2, <1>3

LEMMA SpreadScaled ==
    ASSUME NEW s \in Seq(Nat), NEW u \in Seq(Nat), NEW k \in Nat,
           Len(u) = Len(s), \A i \in 1..Len(s) : u[i] = k * s[i]
    PROVE  Total(u) = k * Total(s) /\ Spread(u) = (k * k) * Spread(s)
<1>1. s \in Seq(Int) /\ u \in Seq(Int) /\ k \in Int
  BY TotalNatural
<1>2. Total(u) = k * Total(s)
  BY <1>1, TotalScaled
<1>3. Total(Squares(u)) = (k * k) * Total(Squares(s))
  <2>1. \A i \in 1..Len(s) : Squares(u)[i] = (k * k) * Squares(s)[i]
    <3> SUFFICES ASSUME NEW i \in 1..Len(s) PROVE u[i] * u[i] = (k * k) * (s[i] * s[i])
      BY SquaresTyped
    <3>1. s[i] \in Int /\ u[i] = k * s[i]
      OBVIOUS
    <3> QED
      BY <3>1
  <2>2. Squares(s) \in Seq(Int) /\ Squares(u) \in Seq(Int) /\ k * k \in Int
    BY SquaresTyped, TotalNatural
  <2>3. Len(Squares(u)) = Len(Squares(s)) /\ Len(Squares(s)) = Len(s)
    BY SquaresTyped
  <2> QED
    BY <2>1, <2>2, <2>3, TotalScaled
<1>4. Total(s) \in Int /\ Total(Squares(s)) \in Int /\ Len(s) \in Int
  BY SquaresTyped, TotalNatural
<1>5. Len(s) * ((k * k) * Total(Squares(s))) - (k * Total(s)) * (k * Total(s))
        = (k * k) * (Len(s) * Total(Squares(s)) - Total(s) * Total(s))
  BY <1>4
<1> QED
  BY <1>2, <1>3, <1>5 DEF Spread

LEMMA VariesScaled ==
    ASSUME NEW s \in Seq(Nat), NEW u \in Seq(Nat), NEW k \in Nat, k > 0, NEW c \in Nat,
           Len(u) = Len(s), \A i \in 1..Len(s) : u[i] = k * s[i]
    PROVE  Varies(u, c) <=> Varies(s, c)
<1> DEFINE n == Len(s)
           t0 == Total(s)
           sp == Spread(s)
<1>1. n \in Nat /\ t0 \in Nat /\ sp \in Int
  BY SquaresTyped, TotalNatural DEF Spread
<1>2. Len(u) = n /\ Total(u) = k * t0 /\ Spread(u) = (k * k) * sp
  BY SpreadScaled
<1> HIDE DEF n, t0, sp
<1>3. /\ 100 * n * ((k * k) * sp) = (k * k) * (100 * n * sp)
      /\ c * c * (n - 1) * (k * t0) * (k * t0) = (k * k) * (c * c * (n - 1) * t0 * t0)
  BY <1>1
<1>4. k * k \in Nat /\ k * k > 0
  OBVIOUS
<1>5. 100 * n * sp \in Int /\ c * c * (n - 1) * t0 * t0 \in Int
  BY <1>1
<1>6. (k * k) * (100 * n * sp) > (k * k) * (c * c * (n - 1) * t0 * t0)
        <=> 100 * n * sp > c * c * (n - 1) * t0 * t0
  BY <1>4, <1>5, Cancels
<1> QED
  BY <1>2, <1>3, <1>6 DEF Varies, n, t0, sp

LEMMA SpikesScaled ==
    ASSUME NEW s \in Seq(Nat), NEW u \in Seq(Nat), NEW k \in Nat, k > 0,
           Len(u) = Len(s), \A i \in 1..Len(s) : u[i] = k * s[i]
    PROVE  Spikes(u) = Spikes(s)
<1> DEFINE n == Len(s)
           t0 == Total(s)
           sp == Spread(s)
           a(i) == n * s[i] - t0
           b(i) == n * u[i] - k * t0
<1>1. n \in Nat /\ t0 \in Nat /\ sp \in Int /\ \A i \in 1..n : s[i] \in Int
  BY SquaresTyped, TotalNatural DEF Spread
<1>2. Len(u) = n /\ Total(u) = k * t0 /\ Spread(u) = (k * k) * sp
  BY SpreadScaled
<1>3. DOMAIN s = 1..n /\ DOMAIN u = 1..n /\ \A i \in 1..n : u[i] = k * s[i]
  OBVIOUS
<1> HIDE DEF n, t0, sp
<1>4. ASSUME NEW i \in 1..n
      PROVE  /\ b(i) > 0 <=> a(i) > 0
             /\ (n - 1) * b(i) * b(i) > 4 * n * ((k * k) * sp)
                   <=> (n - 1) * a(i) * a(i) > 4 * n * sp
  <2>1. s[i] \in Int /\ u[i] = k * s[i]
    BY <1>1, <1>3
  <2>2. a(i) \in Int /\ b(i) = k * a(i)
    <3>1. n * (k * s[i]) - k * t0 = k * (n * s[i] - t0)
      <4> DEFINE x == s[i]
      <4> SUFFICES n * (k * x) - k * t0 = k * (n * x - t0)
        OBVIOUS
      <4>1. x \in Int /\ n \in Int /\ k \in Int /\ t0 \in Int
        BY <1>1, <2>1
      <4> HIDE DEF x
      <4> QED
        BY <4>1
    <3> QED
      BY <1>1, <2>1, <3>1
  <2> HIDE DEF a, b
  <2>3. b(i) > 0 <=> a(i) > 0
    BY <2>2, Cancels
  <2>4. /\ (n - 1) * (k * a(i)) * (k * a(i)) = (k * k) * ((n - 1) * a(i) * a(i))
        /\ 4 * n * ((k * k) * sp) = (k * k) * (4 * n * sp)
    BY <1>1, <2>2
  <2>5. k * k \in Nat /\ k * k > 0
    OBVIOUS
  <2>6. (n - 1) * a(i) * a(i) \in Int /\ 4 * n * sp \in Int
    BY <1>1, <2>2
  <2>7. (k * k) * ((n - 1) * a(i) * a(i)) > (k * k) * (4 * n * sp)
          <=> (n - 1) * a(i) * a(i) > 4 * n * sp
    BY <2>5, <2>6, Cancels
  <2> QED
    BY <2>2, <2>3, <2>4, <2>7
<1>5. /\ Spikes(s) = Cardinality({i \in 1..n : a(i) > 0 /\ (n - 1) * a(i) * a(i) > 4 * n * sp})
      /\ Spikes(u) = Cardinality({i \in 1..n :
                         b(i) > 0 /\ (n - 1) * b(i) * b(i) > 4 * n * ((k * k) * sp)})
  BY <1>2, <1>3, Zenon DEF Spikes, n, t0, sp
<1> HIDE DEF a, b
<1>6. {i \in 1..n : a(i) > 0 /\ (n - 1) * a(i) * a(i) > 4 * n * sp}
        = {i \in 1..n : b(i) > 0 /\ (n - 1) * b(i) * b(i) > 4 * n * ((k * k) * sp)}
  BY <1>4, Zenon
<1> QED
  BY <1>5, <1>6, Zenon

LEMMA TrendScaled ==
    ASSUME NEW s \in Seq(Nat), NEW u \in Seq(Nat), NEW k \in Nat, k > 0,
           Len(u) = Len(s), \A i \in 1..Len(s) : u[i] = k * s[i]
    PROVE  Trend(u) = Trend(s)
<1> DEFINE q == Run(s) \div Len(s)
           slope == 6000 * Magnitude(Rise(s))
           share == Total(s) * q
<1>1. s \in Seq(Int) /\ u \in Seq(Int) /\ Total(s) \in Nat /\ Rise(s) \in Int
  BY TotalNatural, RiseTyped
<1>2. Total(u) = k * Total(s) /\ Rise(u) = k * Rise(s)
  BY <1>1, SpreadScaled, RiseScaled
<1>3. CASE Len(s) = 0
  <2>1. Total(s) = 0 /\ Total(u) = 0
    BY <1>1, <1>3, SumsAdd
  <2> QED
    BY <2>1 DEF Trend
<1>4. CASE Len(s) # 0
  <2>1. Len(s) \in Nat /\ Len(s) > 0 /\ Len(s) * Len(s) - 1 \in Int
    BY <1>4
  <2>2. q \in Int
    BY <2>1, Quotient DEF Run
  <2>3. Run(u) \div Len(u) = q
    BY DEF Run
  <2> HIDE DEF q
  <2>4. 6000 * Magnitude(k * Rise(s)) = k * slope
    <3>1. k * Rise(s) < 0 <=> Rise(s) < 0
      BY <1>1, Cancels
    <3>2. -(k * Rise(s)) = k * (-Rise(s))
      BY <1>1
    <3> QED
      BY <1>1, <3>1, <3>2 DEF Magnitude
  <2>5. (k * Total(s)) * q = k * share
    BY <1>1, <2>2
  <2>6. slope \in Int /\ share \in Int
    BY <1>1, <2>2 DEF Magnitude
  <2> HIDE DEF slope, share
  <2>7. /\ k * slope < k * share <=> slope < share
        /\ k * slope > 7 * (k * share) <=> slope > 7 * share
    <3>1. 7 * (k * share) = k * (7 * share) /\ 7 * share \in Int
      BY <2>6
    <3> QED
      BY <2>6, <3>1, Cancels
  <2>8. (k * Total(s) = 0 <=> Total(s) = 0) /\ (k * Rise(s) > 0 <=> Rise(s) > 0)
    BY <1>1, Cancels
  <2>9. Trend(s) = IF Len(s) < TrendSamples \/ Total(s) = 0 \/ slope < share
                   THEN [direction |-> "stable", strong |-> FALSE]
                   ELSE [direction |-> IF Rise(s) > 0 THEN "increasing" ELSE "decreasing",
                         strong    |-> slope > 7 * share]
    BY DEF Trend, slope, share, q
  <2>10. Trend(u) = IF Len(s) < TrendSamples \/ k * Total(s) = 0 \/ k * slope < k * share
                    THEN [direction |-> "stable", strong |-> FALSE]
                    ELSE [direction |-> IF k * Rise(s) > 0 THEN "increasing" ELSE "decreasing",
                          strong    |-> k * slope > 7 * (k * share)]
    BY <1>2, <2>3, <2>4, <2>5 DEF Trend
  <2> QED
    BY <2>7, <2>8, <2>9, <2>10
<1> QED
  BY <1>3, <1>4

-----------------------------------------------------------------------------
(* The class of a workload and the patterns, whatever its samples.         *)

Histories == [Resources -> Seq(Nat)]

LEMMA TimesTyped ==
    ASSUME NEW h \in Histories, NEW k \in [Resources -> Nat], NEW r \in Resources
    PROVE  /\ h[r] \in Seq(Nat) /\ k[r] \in Nat
           /\ Times(h, k)[r] \in Seq(Nat) /\ Len(Times(h, k)[r]) = Len(h[r])
           /\ \A i \in 1..Len(h[r]) : Times(h, k)[r][i] = k[r] * h[r][i]
<1>1. h[r] \in Seq(Nat) /\ k[r] \in Nat
  BY DEF Histories
<1>2. /\ DOMAIN h[r] = 1..Len(h[r]) /\ Len(h[r]) \in Nat
      /\ \A i \in 1..Len(h[r]) : k[r] * h[r][i] \in Nat
  BY <1>1
<1>3. Times(h, k)[r] = [i \in 1..Len(h[r]) |-> k[r] * h[r][i]]
  BY <1>2 DEF Times
<1> QED
  BY <1>1, <1>2, <1>3

\* The class is the same in any units (analyzeResourcePattern and
\* determineWorkloadClass, workload_classifier.go:126-209).
THEOREM ClassKeepsUnits ==
    ASSUME NEW h \in Histories, NEW k \in [Resources -> Nat \ {0}]
    PROVE  Class(Times(h, k)) = Class(h)
<1> DEFINE u == Times(h, k)
<1>1. ASSUME NEW r \in Resources
      PROVE  /\ Len(u[r]) = Len(h[r]) /\ Trend(u[r]) = Trend(h[r])
             /\ Spikes(u[r]) = Spikes(h[r]) /\ (Varies(u[r], 3) <=> Varies(h[r], 3))
  <2>1. k \in [Resources -> Nat] /\ k[r] > 0
    OBVIOUS
  <2>2. /\ h[r] \in Seq(Nat) /\ u[r] \in Seq(Nat) /\ k[r] \in Nat /\ Len(u[r]) = Len(h[r])
        /\ \A i \in 1..Len(h[r]) : u[r][i] = k[r] * h[r][i]
    BY <2>1, TimesTyped
  <2> HIDE DEF u
  <2> QED
    BY <2>1, <2>2, TrendScaled, SpikesScaled, VariesScaled, 3 \in Nat
<1> HIDE DEF u
<1>2. "cpu" \in Resources
  BY DEF Resources
<1>3. [r \in Resources |-> Trend(u[r])] = [r \in Resources |-> Trend(h[r])]
  BY <1>1
<1>4. (\E r \in Resources : Varies(u[r], 3)) <=> (\E r \in Resources : Varies(h[r], 3))
  BY <1>1
<1>5. (\E r \in Resources : 10 * Spikes(u[r]) > 3 * Len(u[r]))
        <=> (\E r \in Resources : 10 * Spikes(h[r]) > 3 * Len(h[r]))
  BY <1>1
<1>6. Len(u.cpu) = Len(h.cpu) /\ Spikes(u.cpu) = Spikes(h.cpu)
  BY <1>1, <1>2
<1>7. Class(u) = Class(h)
  BY <1>3, <1>4, <1>5, <1>6, Zenon DEF Class
<1> QED
  BY <1>7 DEF u

\* No workload is bursty (workload_classifier.go:198-201).
THEOREM ClassIsNeverBursty ==
    ASSUME NEW h \in Histories, \A r \in Resources : Len(h[r]) > 0
    PROVE  Class(h) # "Bursty"
<1>1. ASSUME NEW r \in Resources PROVE ~ (10 * Spikes(h[r]) > 3 * Len(h[r]))
  <2>1. h[r] \in Seq(Nat) /\ Len(h[r]) > 0 /\ Len(h[r]) \in Nat
    BY DEF Histories
  <2>2. Spikes(h[r]) \in Nat /\ 4 * Spikes(h[r]) < Len(h[r])
    BY <2>1, SpikesAreFew
  <2> QED
    BY <2>1, <2>2
<1> QED
  BY <1>1 DEF Class

LEMMA ClassHasTrend ==
    ASSUME NEW h
    PROVE  /\ Class(h) = "Shrinking" => \E r \in Resources : Trend(h[r]).direction = "decreasing"
           /\ Class(h) = "Growing" => \E r \in Resources : Trend(h[r]).direction = "increasing"
<1> DEFINE trend == [r \in Resources |-> Trend(h[r])]
<1>1. \A r \in Resources : trend[r] = Trend(h[r])
  OBVIOUS
<1>2. /\ Class(h) = "Shrinking" => \E r \in Resources : trend[r].direction = "decreasing"
      /\ Class(h) = "Growing" => \E r \in Resources : trend[r].direction = "increasing"
  BY DEF Class
<1> HIDE DEF trend
<1> QED
  BY <1>1, <1>2

\* What never falls is not shrinking, what never rises is not growing
\* (analyzeTrend, workload_classifier.go:408-455).
THEOREM ClassFollowsUsage ==
    ASSUME NEW h \in Histories
    PROVE  /\ (\A r \in Resources : Monotone(h[r])) => Class(h) # "Shrinking"
           /\ (\A r \in Resources : Antitone(h[r])) => Class(h) # "Growing"
<1>1. ASSUME NEW r \in Resources
      PROVE  /\ Monotone(h[r]) => Trend(h[r]).direction # "decreasing"
             /\ Antitone(h[r]) => Trend(h[r]).direction # "increasing"
  <2>1. h[r] \in Seq(Nat) /\ h[r] \in Seq(Int)
    BY TotalNatural DEF Histories
  <2> QED
    BY <2>1, MonotoneRises, AntitoneFalls, TrendHasSign
<1>2. /\ Class(h) = "Shrinking" => \E r \in Resources : Trend(h[r]).direction = "decreasing"
      /\ Class(h) = "Growing" => \E r \in Resources : Trend(h[r]).direction = "increasing"
  BY ClassHasTrend
<1> QED
  BY <1>1, <1>2

\* A sample is a spike for the one analyzer where it is for the other, and both find
\* the same variation: where the two report on the same samples, a class without a
\* trend and the patterns agree.  They would part where three tenths or more of the
\* samples are spikes, which never are (workload_classifier.go:188-208;
\* recommendation_engine.go:618-644).
THEOREM ClassAgreesWithPatterns ==
    ASSUME NEW h \in Histories, \A r \in Resources : Len(h[r]) > 0
    PROVE  LET someVariable == \E r \in Resources : PatternType(h[r]) = "variable"
           IN  /\ Class(h) = "Periodic" => someVariable /\ SpikePattern(h.cpu) = "frequent"
               /\ Class(h) = "Stable" => ~someVariable
               /\ Class(h) = "Unpredictable" => someVariable /\ SpikePattern(h.cpu) # "frequent"
<1> DEFINE someVariable == \E r \in Resources : PatternType(h[r]) = "variable"
           scattered == \E r \in Resources : Varies(h[r], 3)
           n == Len(h.cpu)
           spikes == Spikes(h.cpu)
<1>1. n \in Nat /\ n > 0 /\ spikes \in Nat /\ 4 * spikes < n
  BY SpikesAreFew DEF Histories, Resources
<1>2. someVariable <=> scattered
  BY DEF PatternType
<1>3. /\ Class(h) = "Periodic" => scattered /\ n < 10 * spikes
      /\ Class(h) = "Stable" => ~scattered
      /\ Class(h) = "Unpredictable" => scattered /\ ~(n < 10 * spikes /\ 10 * spikes < 3 * n)
  BY DEF Class
<1>4. SpikePattern(h.cpu) = "frequent" <=> spikes > n \div 10
  BY DEF SpikePattern
<1> HIDE DEF n, spikes, scattered, someVariable
<1>5. spikes > n \div 10 <=> n < 10 * spikes
  BY <1>1
<1>6. 10 * spikes < 3 * n
  BY <1>1
<1> QED
  BY <1>2, <1>3, <1>4, <1>5, <1>6 DEF someVariable

\* A pattern that is not variable inspires confidence, and priority is high just
\* where confidence is missing (recommendation_engine.go:604-653, 717-726 and
\* 347-385).
THEOREM PatternsFollowConfidence ==
    ASSUME NEW s \in Seq(Nat), Charted(s)
    PROVE  /\ PatternType(s) # "variable" => Confident(s)
           /\ Priority(s) = "High" <=> ~Confident(s)
<1> DEFINE X == Len(s) * Spread(s)
           Y == (Len(s) - 1) * (Total(s) * Total(s))
<1>1. Len(s) \in Nat /\ Len(s) >= 2 /\ Total(s) \in Nat /\ Spread(s) \in Nat
  BY TotalNatural, SpreadNatural, ClassifierAssumption DEF Charted
<1>2. ASSUME NEW c \in Nat PROVE Varies(s, c) <=> 100 * X > (c * c) * Y
  <2> DEFINE n == Len(s)
             v == Spread(s)
             sum == Total(s)
  <2>1. Varies(s, c) <=> 100 * n * v > c * c * (n - 1) * sum * sum
    BY DEF Varies
  <2>2. n \in Int /\ v \in Int /\ sum \in Int /\ c \in Int
    BY <1>1
  <2> HIDE DEF n, v, sum
  <2>3. 100 * n * v = 100 * (n * v)
    BY <2>2
  <2>4. c * c * (n - 1) * sum * sum = (c * c) * ((n - 1) * (sum * sum))
    BY <2>2
  <2> QED
    BY <2>1, <2>3, <2>4 DEF n, v, sum
<1>3. Confident(s) <=> 4 * X <= Y
  <2> DEFINE n == Len(s)
             v == Spread(s)
             sum == Total(s)
  <2>1. Confident(s) <=> n >= 2 /\ 4 * n * v <= (n - 1) * sum * sum
    BY DEF Confident, Spread
  <2>2. n \in Int /\ n >= 2 /\ v \in Int /\ sum \in Int
    BY <1>1
  <2> HIDE DEF n, v, sum
  <2>3. 4 * n * v = 4 * (n * v)
    BY <2>2
  <2>4. (n - 1) * sum * sum = (n - 1) * (sum * sum)
    BY <2>2
  <2> QED
    BY <2>1, <2>2, <2>3, <2>4 DEF n, v, sum
<1>4. X \in Nat /\ Y \in Nat
  <2>1. \A x, y \in Nat : x * y \in Nat
    OBVIOUS
  <2>2. Len(s) - 1 \in Nat
    BY <1>1
  <2>3. Total(s) * Total(s) \in Nat
    BY <1>1, <2>1, Zenon
  <2> QED
    BY <1>1, <2>1, <2>2, <2>3, Zenon
<1> HIDE DEF X, Y
<1>5. (Varies(s, 3) <=> 100 * X > 9 * Y) /\ (Varies(s, 5) <=> 100 * X > 25 * Y)
  <2>1. Varies(s, 3) <=> 100 * X > (3 * 3) * Y
    BY <1>2
  <2>2. Varies(s, 5) <=> 100 * X > (5 * 5) * Y
    BY <1>2
  <2> QED
    BY <1>4, <2>1, <2>2
<1>6. (~ Varies(s, 3) => Confident(s)) /\ (Varies(s, 5) <=> ~Confident(s))
  BY <1>3, <1>4, <1>5
<1> QED
  BY <1>6 DEF PatternType, Priority

-----------------------------------------------------------------------------
(* The samples of every answer are numbers.                                *)

AnswersTyped == /\ \A p \in DOMAIN cpu : cpu[p] \in Seq(Nat)
                /\ \A p \in DOMAIN metrics : metrics[p] \in Histories

LEMMA SeriesTyped ==
    ASSUME TypeOK, NEW p \in Pods, NEW r \in Resources, NEW e \in 0..clock
    PROVE  Series(p, r, e) \in Seq(Nat)
<1> DEFINE first == IF r = "cpu" THEN born[p] + 1 ELSE born[p]
           from == IF e - Window < first THEN first ELSE e - Window
           lo == IF from < 1 THEN 1 ELSE from
           hi == IF e <= died[p] THEN e ELSE died[p]
           s == usage[p][r]
<1>1. /\ born[p] \in Nat /\ died[p] \in Nat /\ MaxClock \in Nat
      /\ e \in Nat /\ e <= MaxClock /\ Window \in Nat
  <2>1. clock \in Warmup..MaxClock /\ Warmup \in Nat /\ MaxClock \in Nat
    BY CollectionAssumption DEF TypeOK
  <2>2. born[p] \in Nat /\ died[p] \in Nat
    BY DEF TypeOK
  <2>3. window \in Nat \cup {Unset, Malformed} /\ DefaultWindow \in Nat
    BY CollectionAssumption DEF TypeOK
  <2> QED
    BY <2>1, <2>2, <2>3 DEF Window
<1>2. s \in Seq(Nat) /\ Len(s) = MaxClock
  <2>1. s \in [1..MaxClock -> Nat]
    BY CollectionAssumption DEF TypeOK, Measured
  <2> HIDE DEF s
  <2> QED
    BY <1>1, <2>1
<1>3. lo \in Nat /\ lo >= 1 /\ hi \in Nat /\ hi <= MaxClock /\ Steps(p, r, e) = lo..hi
  BY <1>1 DEF Steps
<1>4. CASE Steps(p, r, e) = {}
  BY <1>4 DEF Series
<1>5. CASE Steps(p, r, e) # {}
  <2> HIDE DEF lo, hi
  <2>1. lo <= hi
    BY <1>3, <1>5
  <2>2. Cardinality(lo..hi) = hi - lo + 1
    BY <1>3, <2>1, FS_Interval
  <2>3. (CHOOSE k \in lo..hi : \A l \in lo..hi : k <= l) = lo
    BY <1>3, <2>1
  <2>4. Series(p, r, e) = SubSeq(s, lo, hi)
    <3>1. lo + (hi - lo + 1) - 1 = hi
      BY <1>3
    <3> QED
      BY <1>3, <1>5, <2>2, <2>3, <3>1 DEF Series
  <2> HIDE DEF s
  <2>5. SubSeq(s, lo, hi) \in Seq(Nat)
    BY <1>2, <1>3, <2>1
  <2> QED
    BY <2>4, <2>5
<1> QED
  BY <1>4, <1>5

LEMMA QueryTyped ==
    ASSUME TypeOK, NEW r \in Resources, NEW p \in DOMAIN Query(at, r, end[at])
    PROVE  Query(at, r, end[at])[p] \in Seq(Nat)
<1>1. end[at] \in 0..clock
  BY DEF TypeOK
<1>2. p \in Pods /\ Query(at, r, end[at])[p] = Series(p, r, end[at])
  BY DEF Query
<1> QED
  BY <1>1, <1>2, SeriesTyped

LEMMA MockedTyped == ASSUME TypeOK, NEW p \in MockPods PROVE Mocked[p] \in Histories
<1> DEFINE n == IF Window = 0 THEN 1 ELSE IF Window > MaxClock THEN MaxClock ELSE Window
<1>1. n \in Nat /\ n <= MaxClock /\ MockSteps = 1..n
  <2>1. clock \in Warmup..MaxClock /\ Warmup \in Nat \ {0} /\ MaxClock \in Nat
    BY CollectionAssumption DEF TypeOK
  <2>2. window \in Nat \cup {Unset, Malformed} /\ DefaultWindow \in Nat
    BY CollectionAssumption DEF TypeOK
  <2>3. Window \in Nat
    BY <2>2 DEF Window
  <2> QED
    BY <2>1, <2>3 DEF MockSteps
<1> HIDE DEF n
<1>2. ASSUME NEW r \in Resources PROVE [k \in MockSteps |-> usage[p][r][k]] \in Seq(Nat)
  <2>1. usage[p][r] \in [1..MaxClock -> Nat]
    BY CollectionAssumption DEF TypeOK, Measured
  <2>2. \A k \in 1..n : k \in 1..MaxClock
    BY <1>1, CollectionAssumption
  <2>3. \A k \in 1..n : usage[p][r][k] \in Nat
    BY <2>1, <2>2
  <2> QED
    BY <1>1, <2>3
<1> QED
  BY <1>2 DEF Mocked, Histories

LEMMA AnswersAlwaysTyped == Spec => []AnswersTyped
<1>1. Init => AnswersTyped
  BY DEF Init, AnswersTyped, NoAnswer
<1>2. Inv /\ AnswersTyped /\ [Next]_vars => AnswersTyped'
  <2> SUFFICES ASSUME Inv, AnswersTyped, [Next]_vars PROVE AnswersTyped'
    OBVIOUS
  <2>0. TypeOK /\ "cpu" \in Resources /\ "memory" \in Resources
    BY DEF Inv, Resources
  <2>1. CASE Discover \/ End \/ QueryFails \/ \E w \in Workloads : Start(w)
    BY <2>1 DEF Discover, End, QueryFails, Start, AnswersTyped, NoAnswer
  <2>2. CASE AnswerCpu
    <3>1. cpu' = Query(at, "cpu", end[at]) /\ metrics' = metrics
      BY <2>2 DEF AnswerCpu
    <3> QED
      BY <2>0, <3>1, QueryTyped DEF AnswersTyped
  <2>3. CASE AnswerMemory
    <3> DEFINE mem == Query(at, "memory", end[at])
    <3>1. metrics' = Paired(mem) /\ cpu' = NoAnswer
      BY <2>3 DEF AnswerMemory, Answered
    <3>2. \A p \in DOMAIN mem : mem[p] \in Seq(Nat)
      BY <2>0, QueryTyped
    <3> HIDE DEF mem
    <3>3. ASSUME NEW p \in DOMAIN Paired(mem) PROVE Paired(mem)[p] \in Histories
      <4>1. Paired(mem)[p] = [cpu    |-> IF p \in DOMAIN cpu THEN cpu[p] ELSE <<>>,
                              memory |-> IF p \in DOMAIN mem THEN mem[p] ELSE <<>>]
        BY <3>3 DEF Paired
      <4>2. (IF p \in DOMAIN cpu THEN cpu[p] ELSE <<>>) \in Seq(Nat)
            /\ (IF p \in DOMAIN mem THEN mem[p] ELSE <<>>) \in Seq(Nat)
        BY <3>2 DEF AnswersTyped
      <4> DEFINE a == IF p \in DOMAIN cpu THEN cpu[p] ELSE <<>>
                 b == IF p \in DOMAIN mem THEN mem[p] ELSE <<>>
      <4>3. Paired(mem)[p] = [r \in Resources |-> IF r = "cpu" THEN a ELSE b]
        BY <4>1 DEF Resources
      <4> HIDE DEF a, b
      <4>4. a \in Seq(Nat) /\ b \in Seq(Nat)
        BY <4>2 DEF a, b
      <4> QED
        BY <4>3, <4>4 DEF Histories
    <3> QED
      BY <3>1, <3>3 DEF AnswersTyped, NoAnswer
  <2>4. CASE AnswerMock
    <3>1. metrics' = Mocked /\ cpu' = NoAnswer /\ DOMAIN Mocked = MockPods
      BY <2>4 DEF AnswerMock, Answered, Mocked
    <3> QED
      BY <2>0, <3>1, MockedTyped DEF AnswersTyped, NoAnswer
  <2>5. ASSUME UNCHANGED <<cpu, metrics>> PROVE AnswersTyped'
    BY <2>5 DEF AnswersTyped
  <2> QED
    BY <2>1, <2>2, <2>3, <2>4, <2>5 DEF Next, Work, vars, loop, Tick, PodStarts, PodStops
<1> QED
  BY <1>1, <1>2, InvAlways, PTL DEF Spec

\* The samples of several pods, one pod after the other.
LEMMA FlattenTyped ==
    ASSUME NEW q \in Seq(Seq(Nat))
    PROVE  FlattenSeq(q) \in Seq(Nat)
<1> DEFINE Right(g) == g = [i \in 1..Len(q) |-> IF i = 1 THEN q[i] ELSE g[i - 1] \o q[i]]
           Joins(g, n) == /\ g \in [1..n -> Seq(Nat)]
                          /\ \A i \in 1..n : g[i] = IF i = 1 THEN q[i] ELSE g[i - 1] \o q[i]
           S == {k \in 0..Len(q) : \E g : Joins(g, k)}
<1>0. Len(q) \in Nat /\ \A i \in 1..Len(q) : q[i] \in Seq(Nat)
  OBVIOUS
<1>1. 0 \in S
  <2>1. Joins([i \in 1..0 |-> <<>>], 0)
    OBVIOUS
  <2> HIDE DEF Joins
  <2> QED
    BY <1>0, <2>1
<1>2. ASSUME NEW k \in 0..Len(q) - 1, k \in S PROVE k + 1 \in S
  <2>1. PICK g : Joins(g, k)
    BY <1>2
  <2> DEFINE next == IF k = 0 THEN q[k + 1] ELSE g[k] \o q[k + 1]
             h == [i \in 1..k + 1 |-> IF i = k + 1 THEN next ELSE g[i]]
  <2>2. q[k + 1] \in Seq(Nat)
    BY <1>0
  <2>3. next \in Seq(Nat)
    <3>1. CASE k = 0
      BY <2>2, <3>1
    <3>2. CASE k # 0
      <4>1. g[k] \in Seq(Nat)
        BY <2>1, <3>2, <1>0
      <4> QED
        BY <2>2, <3>2, <4>1
    <3> QED
      BY <3>1, <3>2
  <2>4. h \in [1..k + 1 -> Seq(Nat)]
    <3> HIDE DEF next
    <3> QED
      BY <1>0, <2>1, <2>3
  <2>5. ASSUME NEW i \in 1..k + 1
        PROVE  h[i] = IF i = 1 THEN q[i] ELSE h[i - 1] \o q[i]
    <3>1. CASE i = k + 1
      BY <1>0, <3>1
    <3>2. CASE i # k + 1
      <4>1. i \in 1..k /\ (i # 1 => i - 1 \in 1..k + 1 /\ i - 1 # k + 1)
        BY <1>0, <3>2
      <4>2. h[i] = g[i] /\ (i # 1 => h[i - 1] = g[i - 1])
        <5> HIDE DEF next, Joins
        <5> QED
          BY <3>2, <4>1
      <4>3. g[i] = IF i = 1 THEN q[i] ELSE g[i - 1] \o q[i]
        BY <2>1, <4>1
      <4> QED
        BY <4>1, <4>2, <4>3
    <3> QED
      BY <3>1, <3>2
  <2>6. Joins(h, k + 1)
    BY <2>4, <2>5
  <2> HIDE DEF h, Joins
  <2> QED
    BY <1>0, <2>6
<1> HIDE DEF S
<1>3. PICK g : Joins(g, Len(q))
  <2>1. \A k \in 0..Len(q) - 1 : k \in S => k + 1 \in S
    BY <1>2
  <2>2. \A k \in 0..Len(q) : k \in S
    BY <1>0, <1>1, <2>1, Climb
  <2> HIDE DEF Joins
  <2> QED
    BY <1>0, <2>2 DEF S
<1>4. Right(g)
  BY <1>3
<1> DEFINE f == CHOOSE h : Right(h)
<1>5. Len(q) # 0 => FlattenSeq(q) = f[Len(q)]
  BY DEF FlattenSeq
<1>6. Right(f)
  BY <1>4, Zenon
<1> HIDE DEF f
<1> DEFINE Typed == {i \in 0..Len(q) : i > 0 => f[i] \in Seq(Nat)}
<1>7. 0 \in Typed
  BY <1>0
<1>8. ASSUME NEW k \in 0..Len(q) - 1, k \in Typed PROVE k + 1 \in Typed
  <2>1. k + 1 \in 1..Len(q) /\ q[k + 1] \in Seq(Nat)
    BY <1>0
  <2>2. f[k + 1] = IF k + 1 = 1 THEN q[k + 1] ELSE f[(k + 1) - 1] \o q[k + 1]
    BY <1>6, <2>1
  <2>3. CASE k = 0
    BY <1>0, <2>1, <2>2, <2>3
  <2>4. CASE k # 0
    <3>1. k > 0 /\ (k + 1) - 1 = k /\ k + 1 # 1
      BY <1>0, <2>4
    <3>2. f[k] \in Seq(Nat)
      BY <1>8, <3>1
    <3>3. f[k + 1] = f[k] \o q[k + 1]
      BY <2>2, <3>1
    <3>4. f[k + 1] \in Seq(Nat)
      BY <2>1, <3>2, <3>3
    <3> QED
      BY <1>0, <2>1, <3>4
  <2> QED
    BY <2>3, <2>4
<1> HIDE DEF Typed
<1>9. Len(q) # 0 => f[Len(q)] \in Seq(Nat)
  <2>1. \A k \in 0..Len(q) - 1 : k \in Typed => k + 1 \in Typed
    BY <1>8
  <2>2. \A k \in 0..Len(q) : k \in Typed
    BY <1>0, <1>7, <2>1, Climb
  <2> QED
    BY <1>0, <2>2 DEF Typed
<1>10. Len(q) = 0 => FlattenSeq(q) \in Seq(Nat)
  <2>1. Len(q) = 0 => FlattenSeq(q) = q
    BY DEF FlattenSeq
  <2> QED
    BY <2>1
<1> QED
  BY <1>5, <1>9, <1>10

\* Whatever the order of the pods, the classifier gets series of numbers.
LEMMA TogetherTyped ==
    ASSUME TypeOK, AnswersTyped, NEW order \in Orders
    PROVE  Together(order) \in Histories
<1> DEFINE n == Cardinality(DOMAIN metrics)
<1>1. n \in Nat
  <2>1. IsFiniteSet(DOMAIN metrics)
    BY CollectionAssumption, FS_Subset DEF TypeOK
  <2> QED
    BY <2>1, FS_CardinalityType
<1>2. order \in [1..n -> DOMAIN metrics]
  BY DEF Orders
<1> HIDE DEF n
<1>3. ASSUME NEW r \in Resources
      PROVE  FlattenSeq([i \in DOMAIN order |-> metrics[order[i]][r]]) \in Seq(Nat)
  <2>1. \A i \in 1..n : metrics[order[i]][r] \in Seq(Nat)
    BY <1>2 DEF AnswersTyped, Histories
  <2>2. [i \in DOMAIN order |-> metrics[order[i]][r]] \in Seq(Seq(Nat))
    BY <1>1, <1>2, <2>1
  <2> QED
    BY <2>2, FlattenTyped
<1> QED
  BY <1>3 DEF Together, Histories

-----------------------------------------------------------------------------
(* What the analyzers say in every state.                                  *)

\* The units of cores and bytes never matter to the class (analyzeResourcePattern
\* and determineWorkloadClass, workload_classifier.go:126-209).
THEOREM ClassAlwaysUnitFree == Spec => []ClassUnitFree
<1>1. ASSUME TypeOK, AnswersTyped PROVE ClassUnitFree
  <2>1. ASSUME NEW order \in Orders
        PROVE  Class(Times(Together(order), [cpu |-> 2, memory |-> 3])) = Class(Together(order))
    <3>1. [cpu |-> 2, memory |-> 3] \in [Resources -> Nat \ {0}]
      BY DEF Resources
    <3>2. Together(order) \in Histories
      BY <1>1, TogetherTyped
    <3> QED
      BY <3>1, <3>2, ClassKeepsUnits
  <2> QED
    BY <2>1 DEF ClassUnitFree
<1>2. Inv => TypeOK
  BY DEF Inv
<1> QED
  BY <1>1, <1>2, InvAlways, AnswersAlwaysTyped, PTL

\* A workload of one pod is never said to go against its usage (analyzeTrend,
\* workload_classifier.go:408-455).
THEOREM TrendAlwaysFollowsUsage == Spec => []TrendFollowsUsage
<1>1. AnswersTyped => TrendFollowsUsage
  BY ClassFollowsUsage DEF AnswersTyped, TrendFollowsUsage
<1> QED
  BY <1>1, AnswersAlwaysTyped, PTL

\* The two analyzers never contradict each other on a workload of one pod without
\* a trend, where both have enough samples: 20 for the class, more than 24 for a
\* pattern (workload_classifier.go:147, 188-208; recommendation_engine.go:583, 592,
\* 618-644).
THEOREM AnalyzersAlwaysAgree == Spec => []AnalyzersAgree
<1>1. ASSUME AnswersTyped PROVE AnalyzersAgree
  <2>1. ASSUME NEW p \in DOMAIN metrics, Classifiable(metrics[p])
        PROVE  metrics[p] \in Histories /\ \A r \in Resources : Len(metrics[p][r]) > 0
    <3>1. metrics[p] \in Histories /\ \A r \in Resources : Len(metrics[p][r]) \in Nat
      BY <1>1 DEF AnswersTyped, Histories
    <3> QED
      BY <2>1, <3>1, ClassifierAssumption DEF Classifiable
  <2> QED
    BY <2>1, ClassAgreesWithPatterns DEF AnalyzersAgree
<1> QED
  BY <1>1, AnswersAlwaysTyped, PTL

\* The advanced analyzer's patterns and priorities always match the engine's
\* confidence (recommendation_engine.go:604-653, 717-726 and 347-385).
THEOREM PatternsAlwaysMatchConfidence == Spec => []PatternsMatchConfidence
<1>1. ASSUME AnswersTyped PROVE PatternsMatchConfidence
  <2>1. \A p \in DOMAIN metrics : \A r \in Resources : metrics[p][r] \in Seq(Nat)
    BY <1>1 DEF AnswersTyped, Histories
  <2> QED
    BY <2>1, PatternsFollowConfidence DEF PatternsMatchConfidence
<1> QED
  BY <1>1, AnswersAlwaysTyped, PTL
===============================================================================
