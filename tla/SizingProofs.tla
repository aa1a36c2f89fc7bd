----------------------------- MODULE SizingProofs -----------------------------
(***************************************************************************)
(* The recommendation stays within its bounds, covers the samples it       *)
(* should and follows the usage, for every history of samples and every    *)
(* thresholds, and whatever the rounding loses; and the loop, once at      *)
(* rest, stays there.                                                      *)
(***************************************************************************)
EXTENDS Sizing, FiniteSetTheorems, TLAPS

\* The mean of a and b with weights 100 - w and w, times 100.
Mean(a, b, w) == a * (100 - w) + b * w

LEMMA MeanBetween ==
    ASSUME NEW a \in Nat, NEW b \in Nat, NEW w \in 0..100, NEW lo \in Nat,
           lo <= a, lo <= b
    PROVE  /\ Mean(a, b, w) \in Nat /\ 100 * lo <= Mean(a, b, w)
           /\ \A hi \in Nat : a <= hi /\ b <= hi => Mean(a, b, w) <= 100 * hi
<1> DEFINE c == 100 - w
           left == a * c
           right == b * w
<1>1. c \in Nat /\ w \in Nat /\ c + w = 100
  OBVIOUS
<1> HIDE DEF c
<1>2. \A x \in Nat : x * c \in Nat /\ x * w \in Nat /\ x * c + x * w = 100 * x
  BY <1>1
<1>3. left \in Nat /\ lo * c <= left /\ right \in Nat /\ lo * w <= right
  BY <1>1
<1>4. ASSUME NEW hi \in Nat, a <= hi, b <= hi
      PROVE  left <= hi * c /\ right <= hi * w
  BY <1>1, <1>4
<1>5. Mean(a, b, w) = left + right
  BY DEF Mean, c
<1> HIDE DEF left, right
<1>6. Mean(a, b, w) \in Nat /\ 100 * lo <= Mean(a, b, w)
  BY <1>2, <1>3, <1>5
<1>7. ASSUME NEW hi \in Nat, a <= hi, b <= hi
      PROVE  Mean(a, b, w) <= 100 * hi
  <2>1. hi * c \in Nat /\ hi * w \in Nat /\ hi * c + hi * w = 100 * hi
    BY <1>2
  <2>2. left <= hi * c /\ right <= hi * w
    BY <1>4, <1>7
  <2> QED
    BY <1>3, <1>5, <2>1, <2>2
<1> QED
  BY <1>6, <1>7

\* A percentile is a weighted mean of two of the samples, the same two of as many
\* samples: the index never runs past the end (calculatePercentile, lines 321-345).
LEMMA PercentileInterpolates ==
    ASSUME NEW n \in Nat, n > 0, NEW pct \in Nat
    PROVE  \E i, j \in 1..n : \E w \in 0..100 : \A s \in Seq(Nat) :
               Len(s) = n => Percentile(s, pct) = Mean(s[i], s[j], w)
<1> DEFINE Found(i, j, w) == \A s \in Seq(Nat) :
               Len(s) = n => Percentile(s, pct) = Mean(s[i], s[j], w)
           index == pct * (n - 1)
           lower == 1 + (index \div 100)
           weight == index % 100
<1>1. ASSUME NEW i \in 1..n,
             \A s \in Seq(Nat) : Len(s) = n => Percentile(s, pct) = 100 * s[i]
      PROVE  Found(i, i, 0)
  <2>1. ASSUME NEW s \in Seq(Nat), Len(s) = n PROVE Percentile(s, pct) = Mean(s[i], s[i], 0)
    <3>1. s[i] \in Nat
      BY <2>1
    <3> QED
      BY <1>1, <2>1, <3>1 DEF Mean
  <2> QED
    BY <2>1
<1>2. 0 \in 0..100 /\ 1 \in 1..n /\ n \in 1..n
  OBVIOUS
<1>3. CASE pct <= 0
  <2>1. Found(1, 1, 0)
    BY <1>1, <1>2, <1>3 DEF Percentile
  <2> QED
    BY <1>2, <2>1, Zenon
<1>4. CASE pct >= 100
  <2>1. Found(n, n, 0)
    BY <1>1, <1>2, <1>4 DEF Percentile
  <2> QED
    BY <1>2, <2>1, Zenon
<1>5. CASE 0 < pct /\ pct < 100
  <2>1. index \in Nat /\ index <= 99 * (n - 1)
    BY <1>5
  <2> HIDE DEF index
  <2>2. /\ weight \in 0..99 /\ lower \in Nat
        /\ index = 100 * (lower - 1) + weight
    BY <2>1
  <2> HIDE DEF weight, lower
  <2>3. lower \in 1..n
    BY <2>1, <2>2
  <2>4. weight # 0 => lower + 1 \in 1..n
    BY <2>1, <2>2
  <2>5. CASE weight = 0
    <3>1. \A s \in Seq(Nat) : Len(s) = n => Percentile(s, pct) = 100 * s[lower]
      BY <1>5, <2>5 DEF Percentile, index, lower, weight
    <3> HIDE DEF Found
    <3>2. Found(lower, lower, 0)
      BY <1>1, <2>3, <3>1
    <3> USE DEF Found
    <3> QED
      BY <1>2, <2>3, <3>2, Zenon
  <2>6. CASE weight # 0
    <3>1. Found(lower, lower + 1, weight)
      BY <1>5, <2>6 DEF Percentile, Mean, index, lower, weight
    <3>2. lower \in 1..n /\ lower + 1 \in 1..n /\ weight \in 0..100
      BY <2>2, <2>3, <2>4, <2>6
    <3> QED
      BY <3>1, <3>2, Zenon
  <2> QED
    BY <2>5, <2>6
<1> QED
  BY <1>3, <1>4, <1>5

\* A percentile is a natural, and lies between any two bounds of the samples.
LEMMA PercentileBetween ==
    ASSUME NEW s \in Seq(Nat), Len(s) > 0, NEW pct \in Nat, NEW lo \in Nat,
           \A i \in 1..Len(s) : lo <= s[i]
    PROVE  /\ Percentile(s, pct) \in Nat /\ 100 * lo <= Percentile(s, pct)
           /\ \A hi \in Nat : (\A i \in 1..Len(s) : s[i] <= hi)
                                => Percentile(s, pct) <= 100 * hi
<1>0. Len(s) \in Nat
  OBVIOUS
<1>1. PICK i, j \in 1..Len(s), w \in 0..100 : Percentile(s, pct) = Mean(s[i], s[j], w)
  <2>1. \E i, j \in 1..Len(s) : \E w \in 0..100 : \A v \in Seq(Nat) :
          Len(v) = Len(s) => Percentile(v, pct) = Mean(v[i], v[j], w)
    BY <1>0, PercentileInterpolates
  <2> QED
    BY <2>1, Zenon
<1>2. s[i] \in Nat /\ s[j] \in Nat /\ lo <= s[i] /\ lo <= s[j]
  OBVIOUS
<1> DEFINE a == s[i]
           b == s[j]
<1> HIDE DEF a, b
<1>3. /\ Mean(a, b, w) \in Nat /\ 100 * lo <= Mean(a, b, w)
      /\ \A hi \in Nat : a <= hi /\ b <= hi => Mean(a, b, w) <= 100 * hi
  <2>1. a \in Nat /\ b \in Nat /\ lo <= a /\ lo <= b
    BY <1>2 DEF a, b
  <2> QED
    BY <2>1, MeanBetween
<1>4. Percentile(s, pct) = Mean(a, b, w)
  BY <1>1 DEF a, b
<1>5. ASSUME NEW hi \in Nat, \A k \in 1..Len(s) : s[k] <= hi
      PROVE  Percentile(s, pct) <= 100 * hi
  <2>1. a <= hi /\ b <= hi
    BY <1>5 DEF a, b
  <2> QED
    BY <1>3, <1>4, <2>1
<1> QED
  BY <1>3, <1>4, <1>5

\* Truncation loses less than two units, and never makes a number negative.
LEMMA TruncatedBounds ==
    ASSUME NEW k \in Nat, NEW d \in Nat \ {0}
    PROVE  /\ Truncated(k, d) \in Nat /\ k \div d \in Nat
           /\ Truncated(k, d) <= k \div d
           /\ Truncated(k, d) + 1 >= k \div d
<1>1. k \div d \in Nat
  OBVIOUS
<1>2. k \div d \in Lossy => k \div d # 0
  BY RecommendationAssumption
<1> QED
  BY <1>1, <1>2 DEF Truncated

\* Dividing by the scale undoes the scaling of a bound.
LEMMA Unscaled ==
    ASSUME NEW y \in Nat, NEW bound \in Nat
    PROVE  /\ y \div Scale \in Nat
           /\ y <= bound * Scale => y \div Scale <= bound
           /\ y >= bound * Scale => y \div Scale >= bound
<1>1. Scale = 10000
  BY DEF Scale
<1> QED
  BY <1>1

\* The maximum always holds, and the minimum when the two agree (lines 222-235).
LEMMA BoundedBetween ==
    ASSUME NEW x \in Nat, NEW min \in Nat, NEW max \in Nat
    PROVE  /\ Bounded(x, min, max) \in Nat
           /\ max > 0 => Bounded(x, min, max) <= max * Scale
           /\ max = 0 \/ min <= max => Bounded(x, min, max) >= min * Scale
BY DEF Bounded, Scale

\* Only the maximum lowers a value (lines 222-235).
LEMMA BoundedReaches ==
    ASSUME NEW x \in Nat, NEW min \in Nat, NEW max \in Nat
    PROVE  Bounded(x, min, max) >= x \/ (max > 0 /\ Bounded(x, min, max) = max * Scale)
BY DEF Bounded, Scale

\* The limit the engine recommends from some samples.
LEMMA LimitBounds ==
    ASSUME NEW th \in Thresholds, NEW s \in Seq(Nat), Len(s) > 0, NEW r \in Resources
    PROVE  /\ Limit(s, th, r) \in Nat
           /\ th.max[r] > 0 => Limit(s, th, r) <= th.max[r]
           /\ th.max[r] = 0 \/ th.min[r] <= th.max[r] => Limit(s, th, r) + 1 >= th.min[r]
<1> DEFINE pct == OrDefault(th.percentile[r], DefaultPercentile)
           margin == OrDefault(th.margin, DefaultSafetyMargin)
           x == Percentile(s, pct) * (100 + margin)
           y == Bounded(x, th.min[r], th.max[r])
<1>1. /\ th.min[r] \in Nat /\ th.max[r] \in Nat
      /\ pct \in Nat /\ margin \in Nat
  BY SizingAssumption DEF OrDefault, DefaultPercentile, DefaultSafetyMargin
<1>2. Percentile(s, pct) \in Nat
  <2>1. \A i \in 1..Len(s) : 0 <= s[i]
    OBVIOUS
  <2> QED
    BY <1>1, <2>1, PercentileBetween
<1>3. x \in Nat
  BY <1>1, <1>2
<1>4. /\ y \in Nat
      /\ th.max[r] > 0 => y <= th.max[r] * Scale
      /\ th.max[r] = 0 \/ th.min[r] <= th.max[r] => y >= th.min[r] * Scale
  <2> HIDE DEF x
  <2> QED
    BY <1>1, <1>3, BoundedBetween
<1>5. Limit(s, th, r) = Truncated(y, Scale)
  BY DEF Limit
<1> HIDE DEF y
<1>6. /\ Truncated(y, Scale) \in Nat
      /\ Truncated(y, Scale) <= y \div Scale
      /\ Truncated(y, Scale) + 1 >= y \div Scale
  <2>1. Scale \in Nat \ {0}
    BY DEF Scale
  <2> QED
    BY <1>4, <2>1, TruncatedBounds
<1>7. /\ y \div Scale \in Nat
      /\ th.max[r] > 0 => y \div Scale <= th.max[r]
      /\ th.max[r] = 0 \/ th.min[r] <= th.max[r] => y \div Scale >= th.min[r]
  BY <1>1, <1>4, Unscaled
<1> QED
  BY <1>1, <1>5, <1>6, <1>7

\* The limits and the requests of a recommendation (lines 130-150).
LEMMA RecommendedBounds ==
    ASSUME NEW th \in Thresholds, NEW h \in Histories, NEW r \in Resources, Recommendable(h)
    PROVE  LET rec == Recommended(h, th)
           IN  /\ 0 <= rec.requests[r] /\ rec.requests[r] <= rec.limits[r]
               /\ th.max[r] > 0 => rec.limits[r] <= th.max[r]
               /\ th.min[r] > 0 /\ (th.max[r] = 0 \/ th.min[r] <= th.max[r])
                     => rec.limits[r] >= th.min[r] - 1
<1> DEFINE limit == Limit(h[r], th, r)
           share == RequestPercent[r]
           wanted == Truncated(limit * share, 100)
<1>1. h[r] \in Seq(Nat) /\ Len(h[r]) > 0
  BY SizingAssumption, RecommendationAssumption DEF Recommendable
<1>2. /\ limit \in Nat
      /\ th.max[r] > 0 => limit <= th.max[r]
      /\ th.max[r] = 0 \/ th.min[r] <= th.max[r] => limit + 1 >= th.min[r]
  BY <1>1, LimitBounds
<1>3. Recommended(h, th).limits[r] = limit /\ Recommended(h, th).requests[r] = wanted
  BY DEF Recommended
<1>4. th.min[r] \in Nat /\ th.max[r] \in Nat
  BY SizingAssumption
<1>5. share \in {80, 90}
  BY DEF RequestPercent, Resources
<1> HIDE DEF limit, share
<1>6. limit * share \in Nat /\ (limit * share) \div 100 <= limit
  BY <1>2, <1>5
<1>7. wanted \in Nat /\ wanted <= (limit * share) \div 100
      /\ (limit * share) \div 100 \in Nat
  <2>1. 100 \in Nat \ {0}
    OBVIOUS
  <2> QED
    BY <1>6, <2>1, TruncatedBounds
<1> HIDE DEF wanted
<1> QED
  BY <1>2, <1>3, <1>4, <1>6, <1>7

-----------------------------------------------------------------------------
(* What a limit covers.                                                    *)

Ascending(s) == \A i, j \in DOMAIN s : i <= j => s[i] <= s[j]

\* The percentile reaches the sample it is named after, or the one below it.
LEMMA PercentileReaches ==
    ASSUME NEW s \in Seq(Nat), Len(s) > 0, Ascending(s), NEW pct \in Nat \ {0}
    PROVE  \E l \in 1..Len(s) :
             /\ 100 * s[l] <= Percentile(s, pct)
             /\ l = Len(s) \/ (pct < 100 /\ 100 * l > pct * (Len(s) - 1))
<1> DEFINE n == Len(s)
           index == pct * (n - 1)
           lower == 1 + (index \div 100)
           weight == index % 100
<1>1. n \in Nat /\ n >= 1 /\ DOMAIN s = 1..n
  OBVIOUS
<1>2. CASE pct >= 100
  <2>1. Percentile(s, pct) = 100 * s[n] /\ n \in 1..n /\ s[n] \in Nat
    BY <1>1, <1>2 DEF Percentile
  <2> QED
    BY <2>1
<1>3. CASE pct < 100
  <2>1. index \in Nat /\ index <= 99 * (n - 1)
    BY <1>1, <1>3
  <2> HIDE DEF index
  <2>2. /\ weight \in 0..99 /\ lower \in Nat
        /\ index = 100 * (lower - 1) + weight
    BY <2>1
  <2> HIDE DEF weight, lower
  <2>3. lower \in 1..n /\ (weight # 0 => lower + 1 \in 1..n) /\ 100 * lower > index
    BY <1>1, <2>1, <2>2
  <2>4. 100 * s[lower] <= Percentile(s, pct)
    <3>1. CASE weight = 0
      <4>1. Percentile(s, pct) = 100 * s[lower] /\ s[lower] \in Nat
        BY <1>3, <2>3, <3>1 DEF Percentile, index, lower, weight
      <4> QED
        BY <4>1
    <3>2. CASE weight # 0
      <4> DEFINE a == s[lower]
                 b == s[lower + 1]
      <4>1. Percentile(s, pct) = Mean(a, b, weight)
        BY <1>3, <3>2 DEF Percentile, Mean, index, lower, weight
      <4>2. a \in Nat /\ b \in Nat /\ a <= b
        <5>1. lower \in DOMAIN s /\ lower + 1 \in DOMAIN s /\ lower <= lower + 1
          BY <1>1, <2>2, <2>3, <3>2
        <5>2. s[lower] <= s[lower + 1]
          BY <5>1 DEF Ascending
        <5> QED
          BY <5>1, <5>2
      <4> HIDE DEF a, b
      <4>3. weight \in 0..100 /\ a <= a
        BY <2>2, <4>2
      <4>4. 100 * a <= Mean(a, b, weight)
        BY <4>2, <4>3, MeanBetween
      <4> QED
        BY <4>1, <4>4 DEF a
    <3> QED
      BY <3>1, <3>2
  <2> QED
    BY <1>3, <2>3, <2>4 DEF index
<1> QED
  BY <1>2, <1>3

\* Whoever reaches the l-th of the ascending samples covers l of them.
LEMMA CoversBelow ==
    ASSUME NEW s \in Seq(Nat), Ascending(s), NEW l \in 1..Len(s), NEW limit \in Nat,
           s[l] <= limit
    PROVE  LET covered == {i \in DOMAIN s : s[i] <= limit}
           IN  /\ Cardinality(covered) \in Nat /\ Cardinality(covered) >= l
               /\ l = Len(s) => covered = DOMAIN s
<1> DEFINE covered == {i \in DOMAIN s : s[i] <= limit}
<1>1. DOMAIN s = 1..Len(s) /\ Len(s) \in Nat /\ \A i \in 1..Len(s) : s[i] \in Nat
  OBVIOUS
<1>2. 1..l \subseteq covered
  <2> SUFFICES ASSUME NEW i \in 1..l PROVE i \in covered
    OBVIOUS
  <2>1. i \in 1..Len(s) /\ i <= l /\ l \in 1..Len(s)
    BY <1>1
  <2>2. s[i] <= s[l]
    BY <1>1, <2>1 DEF Ascending
  <2> QED
    BY <1>1, <2>1, <2>2
<1>3. IsFiniteSet(1..Len(s)) /\ Cardinality(1..l) = l
  BY <1>1, FS_Interval
<1>4. IsFiniteSet(covered) /\ Cardinality(covered) \in Nat
  BY <1>1, <1>3, FS_Subset, FS_CardinalityType
<1>5. Cardinality(1..l) <= Cardinality(covered)
  BY <1>2, <1>4, FS_Subset
<1> QED
  BY <1>1, <1>2, <1>3, <1>4, <1>5

\* The limit reaches what the percentile reaches, unless it is at the maximum: the
\* margin makes up for what the truncation loses.
LEMMA LimitReaches ==
    ASSUME NEW th \in Thresholds, NEW s \in Seq(Nat), Len(s) > 0, NEW r \in Resources,
           NEW v \in Nat, 100 * v <= Percentile(s, OrDefault(th.percentile[r], DefaultPercentile))
    PROVE  (th.max[r] > 0 /\ Limit(s, th, r) + 1 >= th.max[r]) \/ v <= Limit(s, th, r)
<1> DEFINE pct == OrDefault(th.percentile[r], DefaultPercentile)
           margin == OrDefault(th.margin, DefaultSafetyMargin)
           p == Percentile(s, pct)
           x == p * (100 + margin)
           y == Bounded(x, th.min[r], th.max[r])
<1>1. /\ th.min[r] \in Nat /\ th.max[r] \in Nat
      /\ pct \in Nat /\ margin \in Nat /\ margin > 0
  BY SizingAssumption DEF OrDefault, DefaultPercentile, DefaultSafetyMargin
<1>2. p \in Nat /\ 100 * v <= p
  <2>1. \A i \in 1..Len(s) : 0 <= s[i]
    OBVIOUS
  <2> QED
    BY <1>1, <2>1, PercentileBetween
<1>3. Limit(s, th, r) = Truncated(y, Scale)
  BY DEF Limit
<1> HIDE DEF p, margin
<1>4. x \in Nat /\ x >= 10000 * v /\ (v > 0 => x > 10000 * v)
  <2>1. p * (100 + margin) = 100 * p + p * margin /\ p * margin \in Nat
    BY <1>1, <1>2
  <2>2. p > 0 => p * margin > 0
    BY <1>1, <1>2
  <2> QED
    BY <1>2, <2>1, <2>2
<1> HIDE DEF x
<1>5. y \in Nat /\ (y >= x \/ (th.max[r] > 0 /\ y = th.max[r] * Scale))
  <2>1. x \in Nat /\ th.min[r] \in Nat /\ th.max[r] \in Nat
    BY <1>1, <1>4
  <2>2. y \in Nat
    BY <2>1, BoundedBetween
  <2>3. y >= x \/ (th.max[r] > 0 /\ y = th.max[r] * Scale)
    BY <2>1, BoundedReaches
  <2> QED
    BY <2>2, <2>3
<1> HIDE DEF y
<1>6. /\ Truncated(y, Scale) \in Nat
      /\ Truncated(y, Scale) + 1 >= y \div Scale
  <2>1. Scale \in Nat \ {0}
    BY DEF Scale
  <2> QED
    BY <1>5, <2>1, TruncatedBounds
<1>7. CASE th.max[r] > 0 /\ y = th.max[r] * Scale
  <2>1. y >= th.max[r] * Scale
    BY <1>1, <1>7 DEF Scale
  <2>2. y \div Scale \in Nat /\ y \div Scale >= th.max[r]
    BY <1>1, <1>5, <2>1, Unscaled
  <2> QED
    BY <1>1, <1>3, <1>6, <1>7, <2>2
<1>8. CASE y >= x
  <2>1. y >= v * Scale /\ (v > 0 => y > v * Scale)
    BY <1>4, <1>5, <1>8 DEF Scale
  <2>2. y \div Scale \in Nat /\ y \div Scale >= v
    BY <1>5, <2>1, Unscaled
  <2>3. CASE Truncated(y, Scale) = y \div Scale
    BY <1>3, <2>2, <2>3
  <2>4. CASE y % Scale = 0 /\ Truncated(y, Scale) = (y \div Scale) - 1
    <3>1. y = Scale * (y \div Scale)
      BY <1>5, <2>4 DEF Scale
    <3>2. v > 0 => y \div Scale > v
      BY <2>1, <2>2, <3>1 DEF Scale
    <3> QED
      BY <1>3, <1>6, <2>2, <2>4, <3>2
  <2> QED
    BY <2>3, <2>4 DEF Truncated
<1> QED
  BY <1>5, <1>7, <1>8

\* The thresholds and the histories of the pods are among those that users and
\* metrics give, at every step of the loop.
Measured == t \in Thresholds /\ history \in [Pods -> Histories] /\ edits \in Nat

LEMMA MeasuredInvariant == Spec => []Measured
<1>1. Init => Measured
  BY DEF Init, Measured
<1>2. Measured /\ [Next]_vars => Measured'
  <2> SUFFICES ASSUME Measured, [Next]_vars
               PROVE  Measured'
    OBVIOUS
  <2>1. CASE Slot
    BY <2>1 DEF Slot, Measured
  <2>2. ASSUME NEW p \in Pods, Rollout(p)
        PROVE  Measured'
    BY <2>2 DEF Rollout, Measured
  <2>3. ASSUME NEW p \in Pods, UsageChanges(p)
        PROVE  Measured'
    BY <2>3 DEF UsageChanges, Edited, Measured
  <2>4. ASSUME NEW p \in Pods, Stop(p)
        PROVE  Measured'
    BY <2>4 DEF Stop, Edited, Measured
  <2>5. CASE OwnerEdits
    BY <2>5 DEF OwnerEdits, Edited, Measured
  <2>6. CASE UNCHANGED vars
    BY <2>6 DEF vars, Measured
  <2> QED
    BY <2>1, <2>2, <2>3, <2>4, <2>5, <2>6 DEF Next
<1> QED
  BY <1>1, <1>2, PTL DEF Spec

\* Whatever the samples, thresholds and rounding: requests do not exceed limits,
\* limits do not exceed the maximum, and reach the minimum, one lost unit apart,
\* when minimum and maximum agree (analyzeCPUUsage, lines 222-241;
\* generatePodRecommendation, 130-150).
THEOREM RecommendationsWithinBounds == Spec => []WithinBounds
<1>1. Measured => WithinBounds
  <2> SUFFICES ASSUME Measured, NEW p \in Pods, Recommendable(history[p]),
                      NEW r \in Resources
               PROVE  LET rec == Recommended(history[p], t)
                      IN  /\ 0 <= rec.requests[r] /\ rec.requests[r] <= rec.limits[r]
                          /\ t.max[r] > 0 => rec.limits[r] <= t.max[r]
                          /\ t.min[r] > 0 /\ (t.max[r] = 0 \/ t.min[r] <= t.max[r])
                                => rec.limits[r] >= t.min[r] - 1
    BY DEF WithinBounds
  <2>1. t \in Thresholds /\ history[p] \in Histories
    BY DEF Measured
  <2> QED
    BY <2>1, RecommendedBounds
<1> QED
  BY <1>1, MeasuredInvariant, PTL

\* The limit covers the samples at and below the percentile's index, unless the
\* maximum cuts it (calculatePercentile, lines 321-345, and the margin, lines
\* 214-220).
THEOREM LimitsCoverSamples == Spec => []CoversSamples
<1>1. Measured => CoversSamples
  <2> SUFFICES ASSUME Measured, NEW p \in Pods, NEW r \in Resources,
                      Recommendable(history[p])
               PROVE  LET s       == history[p][r]
                          limit   == Limit(s, t, r)
                          covered == {i \in DOMAIN s : s[i] <= limit}
                          pct     == OrDefault(t.percentile[r], DefaultPercentile)
                      IN  \/ t.max[r] > 0 /\ limit + 1 >= t.max[r]
                          \/ covered = DOMAIN s
                          \/ pct < 100 /\ 100 * Cardinality(covered) > pct * (Len(s) - 1)
    BY DEF CoversSamples
  <2> DEFINE s       == history[p][r]
             limit   == Limit(s, t, r)
             covered == {i \in DOMAIN s : s[i] <= limit}
             pct     == OrDefault(t.percentile[r], DefaultPercentile)
  <2>1. t \in Thresholds /\ s \in Seq(Nat) /\ Len(s) > 0 /\ Ascending(s)
    BY SizingAssumption, RecommendationAssumption DEF Measured, Recommendable, Ascending
  <2>2. pct \in Nat \ {0}
    BY <2>1, SizingAssumption DEF OrDefault, DefaultPercentile
  <2>3. limit \in Nat
    BY <2>1, LimitBounds
  <2> HIDE DEF s
  <2>4. PICK l \in 1..Len(s) : /\ 100 * s[l] <= Percentile(s, pct)
                               /\ l = Len(s) \/ (pct < 100 /\ 100 * l > pct * (Len(s) - 1))
    BY <2>1, <2>2, PercentileReaches
  <2>5. s[l] \in Nat
    BY <2>1
  <2>6. (t.max[r] > 0 /\ limit + 1 >= t.max[r]) \/ s[l] <= limit
    BY <2>1, <2>4, <2>5, LimitReaches
  <2> HIDE DEF limit
  <2>7. s[l] <= limit => /\ Cardinality(covered) \in Nat /\ Cardinality(covered) >= l
                         /\ l = Len(s) => covered = DOMAIN s
    BY <2>1, <2>3, CoversBelow
  <2> HIDE DEF covered, pct
  <2>8. s[l] <= limit /\ l # Len(s)
          => pct < 100 /\ 100 * Cardinality(covered) > pct * (Len(s) - 1)
    <3>1. pct * (Len(s) - 1) \in Int
      BY <2>1, <2>2
    <3> QED
      BY <2>4, <2>7, <3>1
  <2>9. \/ t.max[r] > 0 /\ limit + 1 >= t.max[r]
        \/ covered = DOMAIN s
        \/ pct < 100 /\ 100 * Cardinality(covered) > pct * (Len(s) - 1)
    BY <2>6, <2>7, <2>8
  <2> QED
    BY <2>9 DEF s, limit, covered, pct
<1> QED
  BY <1>1, MeasuredInvariant, PTL

-----------------------------------------------------------------------------
(* More usage, or a higher percentile, never leads to less.                *)

LEMMA MeanGrows ==
    ASSUME NEW a \in Nat, NEW b \in Nat, NEW c \in Nat, NEW d \in Nat, NEW w \in 0..100,
           a <= c, b <= d
    PROVE  Mean(a, b, w) \in Nat /\ Mean(c, d, w) \in Nat /\ Mean(a, b, w) <= Mean(c, d, w)
<1> DEFINE v == 100 - w
<1>1. v \in Nat /\ w \in Nat
  OBVIOUS
<1> HIDE DEF v
<1>2. a * v \in Nat /\ c * v \in Nat /\ a * v <= c * v
  <2>1. c = a + (c - a) /\ c - a \in Nat
    OBVIOUS
  <2>2. (a + (c - a)) * v = a * v + (c - a) * v /\ (c - a) * v \in Nat
    BY <1>1, <2>1
  <2> QED
    BY <1>1, <2>1, <2>2
<1>3. b * w \in Nat /\ d * w \in Nat /\ b * w <= d * w
  <2>1. d = b + (d - b) /\ d - b \in Nat
    OBVIOUS
  <2>2. (b + (d - b)) * w = b * w + (d - b) * w /\ (d - b) * w \in Nat
    BY <1>1, <2>1
  <2> QED
    BY <1>1, <2>1, <2>2
<1> QED
  BY <1>2, <1>3 DEF Mean, v

LEMMA MeanLeansOver ==
    ASSUME NEW a \in Nat, NEW b \in Nat, NEW w \in 0..100, NEW x \in 0..100, a <= b, w <= x
    PROVE  Mean(a, b, w) <= Mean(a, b, x)
<1> DEFINE d == b - a
<1>1. d \in Nat /\ b = a + d
  OBVIOUS
<1> HIDE DEF d
<1>2. ASSUME NEW y \in 0..100 PROVE Mean(a, b, y) = 100 * a + d * y
  BY <1>1 DEF Mean
<1>3. d * w <= d * x /\ d * w \in Nat /\ d * x \in Nat
  <2>1. x = w + (x - w) /\ x - w \in Nat
    OBVIOUS
  <2>2. d * (w + (x - w)) = d * w + d * (x - w) /\ d * (x - w) \in Nat
    BY <1>1, <2>1
  <2> QED
    BY <1>1, <2>1, <2>2
<1> QED
  BY <1>2, <1>3

\* What is in a series is a number.
LEMMA SamplesNatural == ASSUME NEW v \in Seq(Nat), NEW k \in 1..Len(v) PROVE v[k] \in Nat
  OBVIOUS

\* More usage, sample for sample, gives no smaller percentile.
LEMMA PercentileFollowsUsage ==
    ASSUME NEW s \in Seq(Nat), NEW u \in Seq(Nat), Len(s) > 0, Len(u) = Len(s),
           \A i \in 1..Len(s) : s[i] <= u[i], NEW pct \in Nat
    PROVE  Percentile(s, pct) <= Percentile(u, pct)
<1>0. Len(s) \in Nat
  OBVIOUS
<1>1. PICK i, j \in 1..Len(s), w \in 0..100 :
        \A v \in Seq(Nat) : Len(v) = Len(s) => Percentile(v, pct) = Mean(v[i], v[j], w)
  BY <1>0, PercentileInterpolates
<1>2. Percentile(s, pct) = Mean(s[i], s[j], w) /\ Percentile(u, pct) = Mean(u[i], u[j], w)
  BY <1>1
<1>3. /\ s[i] \in Nat /\ s[j] \in Nat /\ u[i] \in Nat /\ u[j] \in Nat
      /\ s[i] <= u[i] /\ s[j] <= u[j]
  <2>1. i \in 1..Len(u) /\ j \in 1..Len(u)
    OBVIOUS
  <2>2. s[i] \in Nat /\ s[j] \in Nat
    BY SamplesNatural, Zenon
  <2>3. u[i] \in Nat /\ u[j] \in Nat
    BY SamplesNatural, <2>1, Zenon
  <2> QED
    BY <2>2, <2>3
<1>4. Mean(s[i], s[j], w) <= Mean(u[i], u[j], w)
  BY <1>3, MeanGrows
<1> QED
  BY <1>2, <1>4

\* Between two samples the percentile is their mean, and goes from one to the other.
LEMMA PercentileInside ==
    ASSUME NEW s \in Seq(Nat), Len(s) > 0, Ascending(s), NEW pct \in Nat, 0 < pct, pct < 100
    PROVE  LET n      == Len(s)
               index  == pct * (n - 1)
               lower  == 1 + (index \div 100)
               weight == index % 100
           IN  /\ index \in Nat /\ lower \in 1..n /\ weight \in 0..99
               /\ index = 100 * (lower - 1) + weight
               /\ weight # 0 => lower + 1 \in 1..n
               /\ Percentile(s, pct) = IF weight = 0 THEN 100 * s[lower]
                                       ELSE Mean(s[lower], s[lower + 1], weight)
<1> DEFINE n      == Len(s)
           index  == pct * (n - 1)
           lower  == 1 + (index \div 100)
           weight == index % 100
<1>1. n \in Nat /\ n >= 1
  OBVIOUS
<1>2. index \in Nat /\ index <= 99 * (n - 1)
  BY <1>1
<1>3. Percentile(s, pct) = IF weight = 0 THEN 100 * s[lower]
                           ELSE Mean(s[lower], s[lower + 1], weight)
  BY DEF Percentile, Mean
<1> HIDE DEF index
<1>4. /\ weight \in 0..99 /\ lower \in Nat /\ lower >= 1
      /\ index = 100 * (lower - 1) + weight
  BY <1>2
<1> HIDE DEF weight, lower
<1>5. lower \in 1..n /\ (weight # 0 => lower + 1 \in 1..n)
  BY <1>1, <1>2, <1>4
<1> QED
  BY <1>2, <1>3, <1>4, <1>5 DEF index, lower, weight

LEMMA PercentileFollowsPercent ==
    ASSUME NEW s \in Seq(Nat), Len(s) > 0, Ascending(s), NEW p \in Nat, NEW q \in Nat, p <= q
    PROVE  Percentile(s, p) <= Percentile(s, q)
<1> DEFINE n == Len(s)
<1>1. n \in Nat /\ n >= 1 /\ DOMAIN s = 1..n /\ \A i \in 1..n : s[i] \in Nat
  OBVIOUS
<1>2. \A i, j \in 1..n : i <= j => s[i] <= s[j]
  BY <1>1 DEF Ascending
<1>3. \A i \in 1..n : s[1] <= s[i] /\ s[i] <= s[n] /\ s[1] \in Nat /\ s[n] \in Nat
  BY <1>1, <1>2
<1>4. /\ Percentile(s, p) \in Nat /\ Percentile(s, q) \in Nat
      /\ 100 * s[1] <= Percentile(s, q) /\ Percentile(s, p) <= 100 * s[n]
  <2> DEFINE lo == s[1]
             hi == s[n]
  <2>1. lo \in Nat /\ hi \in Nat /\ \A i \in 1..Len(s) : lo <= s[i] /\ s[i] <= hi
    BY <1>1, <1>3
  <2> HIDE DEF lo, hi
  <2>2. /\ Percentile(s, p) \in Nat /\ Percentile(s, q) \in Nat
        /\ 100 * lo <= Percentile(s, q) /\ Percentile(s, p) <= 100 * hi
    BY <2>1, PercentileBetween
  <2> QED
    BY <2>2 DEF lo, hi
<1>5. CASE p <= 0
  <2>1. Percentile(s, p) = 100 * s[1]
    BY <1>5 DEF Percentile
  <2> QED
    BY <1>4, <2>1
<1>6. CASE q >= 100
  <2>1. Percentile(s, q) = 100 * s[n]
    BY <1>6 DEF Percentile
  <2> QED
    BY <1>4, <2>1
<1>7. CASE 0 < p /\ q < 100
  <2> DEFINE ip == p * (n - 1)
             lp == 1 + (ip \div 100)
             wp == ip % 100
             iq == q * (n - 1)
             lq == 1 + (iq \div 100)
             wq == iq % 100
  <2>1. /\ ip \in Nat /\ lp \in 1..n /\ wp \in 0..99 /\ ip = 100 * (lp - 1) + wp
        /\ wp # 0 => lp + 1 \in 1..n
        /\ Percentile(s, p) = IF wp = 0 THEN 100 * s[lp] ELSE Mean(s[lp], s[lp + 1], wp)
    <3>1. p < 100
      BY <1>7
    <3> QED
      BY <1>7, <3>1, PercentileInside
  <2>2. /\ iq \in Nat /\ lq \in 1..n /\ wq \in 0..99 /\ iq = 100 * (lq - 1) + wq
        /\ wq # 0 => lq + 1 \in 1..n
        /\ Percentile(s, q) = IF wq = 0 THEN 100 * s[lq] ELSE Mean(s[lq], s[lq + 1], wq)
    <3>1. 0 < q
      BY <1>7
    <3> QED
      BY <1>7, <3>1, PercentileInside
  <2>3. ip <= iq
    <3>1. q = p + (q - p) /\ q - p \in Nat /\ n - 1 \in Nat
      BY <1>1
    <3>2. (p + (q - p)) * (n - 1) = p * (n - 1) + (q - p) * (n - 1)
          /\ (q - p) * (n - 1) \in Nat
      BY <3>1
    <3> QED
      BY <2>1, <2>2, <3>1, <3>2
  <2> HIDE DEF ip, iq
  <2> HIDE DEF lp, lq, wp, wq, n
  <2>4. lp <= lq /\ (lp = lq => wp <= wq)
    <3>1. /\ lp \in Int /\ lq \in Int /\ wp \in 0..99 /\ wq \in 0..99
          /\ 100 * (lp - 1) + wp <= 100 * (lq - 1) + wq
      BY <2>1, <2>2, <2>3
    <3> QED
      BY <3>1
  <2>5. CASE lp < lq
    <3>1. lp + 1 \in 1..n /\ lp <= lp + 1 /\ lp + 1 <= lq
      BY <1>1, <2>1, <2>2, <2>5
    <3> DEFINE a == s[lp]
               b == s[lp + 1]
               c == s[lq]
               d == s[lq + 1]
    <3>2. a \in Nat /\ b \in Nat /\ c \in Nat /\ a <= b /\ b <= c
      BY <1>1, <1>2, <2>1, <2>2, <3>1
    <3>3. wq # 0 => d \in Nat /\ c <= d
      <4>1. lq <= lq + 1
        BY <1>1, <2>2
      <4> QED
        BY <1>1, <1>2, <2>2, <4>1
    <3>4. /\ Percentile(s, p) = IF wp = 0 THEN 100 * a ELSE Mean(a, b, wp)
          /\ Percentile(s, q) = IF wq = 0 THEN 100 * c ELSE Mean(c, d, wq)
      BY <2>1, <2>2
    <3> HIDE DEF a, b, c, d
    <3>5. wp \in 0..100 /\ wq \in 0..100 /\ b <= b /\ c <= c /\ 0 <= a /\ 0 <= b /\ 0 \in Nat
      BY <2>1, <2>2, <3>2
    <3>6. Mean(a, b, wp) <= 100 * b
      BY <3>2, <3>5, MeanBetween
    <3>7. wq # 0 => 100 * c <= Mean(c, d, wq)
      BY <3>2, <3>3, <3>5, MeanBetween
    <3> QED
      BY <1>4, <3>2, <3>4, <3>6, <3>7
  <2>6. CASE lp = lq
    <3> DEFINE a == s[lq]
               b == s[lq + 1]
    <3>1. wp <= wq /\ wp \in 0..100 /\ wq \in 0..100
      BY <2>1, <2>2, <2>4, <2>6
    <3>2. /\ Percentile(s, p) = IF wp = 0 THEN 100 * a ELSE Mean(a, b, wp)
          /\ Percentile(s, q) = IF wq = 0 THEN 100 * a ELSE Mean(a, b, wq)
      BY <2>1, <2>2, <2>6
    <3>3. a \in Nat /\ (wq # 0 => b \in Nat /\ a <= b)
      <4>1. lq <= lq + 1
        BY <1>1, <2>2
      <4> QED
        BY <1>1, <1>2, <2>2, <4>1
    <3> HIDE DEF a, b
    <3>4. CASE wq = 0
      BY <3>1, <3>2, <3>3, <3>4
    <3>5. CASE wq # 0
      <4>1. Mean(a, b, wp) <= Mean(a, b, wq)
        BY <3>1, <3>3, <3>5, MeanLeansOver
      <4>2. 100 * a <= Mean(a, b, wq)
        <5>1. a <= a
          BY <3>3
        <5> QED
          BY <3>1, <3>3, <3>5, <5>1, MeanBetween
      <4> QED
        BY <3>2, <3>5, <4>1, <4>2
    <3> QED
      BY <3>4, <3>5
  <2> QED
    BY <1>1, <2>1, <2>2, <2>4, <2>5, <2>6
<1> QED
  BY <1>5, <1>6, <1>7

\* What floats lose never turns the order of two numbers round.
LEMMA TruncatedGrows ==
    ASSUME NEW x \in Nat, NEW y \in Nat, x <= y, NEW d \in {100, Scale}
    PROVE  Truncated(x, d) <= Truncated(y, d)
<1>1. d \in {100, 10000}
  BY DEF Scale
<1>2. x \div d \in Nat /\ y \div d \in Nat /\ x \div d <= y \div d
  BY <1>1
<1>3. y % d = 0 /\ x \div d = y \div d => x = y
  BY <1>1
<1> QED
  BY <1>2, <1>3 DEF Truncated

LEMMA BoundedGrows ==
    ASSUME NEW x \in Nat, NEW y \in Nat, x <= y, NEW min \in Nat, NEW max \in Nat
    PROVE  /\ Bounded(x, min, max) \in Nat /\ Bounded(y, min, max) \in Nat
           /\ Bounded(x, min, max) <= Bounded(y, min, max)
BY DEF Bounded, Scale

\* Same margin and bounds: the limit follows the percentile.
LEMMA LimitGrows ==
    ASSUME NEW th \in Thresholds, NEW more \in Thresholds, NEW r \in Resources,
           more.min[r] = th.min[r], more.max[r] = th.max[r], more.margin = th.margin,
           NEW s \in Seq(Nat), NEW u \in Seq(Nat), Len(s) > 0, Len(u) > 0,
           Percentile(s, OrDefault(th.percentile[r], DefaultPercentile))
             <= Percentile(u, OrDefault(more.percentile[r], DefaultPercentile))
    PROVE  Limit(s, th, r) <= Limit(u, more, r)
<1> DEFINE ps == Percentile(s, OrDefault(th.percentile[r], DefaultPercentile))
           pu == Percentile(u, OrDefault(more.percentile[r], DefaultPercentile))
           f == 100 + OrDefault(th.margin, DefaultSafetyMargin)
           lo == th.min[r]
           hi == th.max[r]
<1>1. /\ lo \in Nat /\ hi \in Nat /\ f \in Nat
      /\ OrDefault(th.percentile[r], DefaultPercentile) \in Nat
      /\ OrDefault(more.percentile[r], DefaultPercentile) \in Nat
  BY SizingAssumption DEF OrDefault, DefaultPercentile, DefaultSafetyMargin
<1>2. ps \in Nat /\ pu \in Nat
  <2>1. (\A i \in 1..Len(s) : 0 <= s[i]) /\ (\A i \in 1..Len(u) : 0 <= u[i]) /\ 0 \in Nat
    OBVIOUS
  <2> QED
    BY <1>1, <2>1, PercentileBetween
<1>3. /\ Limit(s, th, r) = Truncated(Bounded(ps * f, lo, hi), Scale)
      /\ Limit(u, more, r) = Truncated(Bounded(pu * f, lo, hi), Scale)
  BY DEF Limit
<1>4. ps <= pu
  OBVIOUS
<1> HIDE DEF ps, pu, f, lo, hi
<1>5. ps * f \in Nat /\ pu * f \in Nat /\ ps * f <= pu * f
  <2>1. pu = ps + (pu - ps) /\ pu - ps \in Nat
    BY <1>2, <1>4
  <2>2. (ps + (pu - ps)) * f = ps * f + (pu - ps) * f /\ (pu - ps) * f \in Nat
    BY <1>1, <1>2, <2>1
  <2> QED
    BY <1>1, <1>2, <2>1, <2>2
<1> DEFINE x == ps * f
           y == pu * f
<1>6. x \in Nat /\ y \in Nat /\ x <= y
  BY <1>5
<1> HIDE DEF x, y
<1>7. /\ Bounded(x, lo, hi) \in Nat /\ Bounded(y, lo, hi) \in Nat
      /\ Bounded(x, lo, hi) <= Bounded(y, lo, hi)
  BY <1>1, <1>6, BoundedGrows
<1>8. Truncated(Bounded(x, lo, hi), Scale) <= Truncated(Bounded(y, lo, hi), Scale)
  BY <1>7, TruncatedGrows
<1> QED
  BY <1>3, <1>8 DEF x, y

\* Limits in order give requests in order.
LEMMA RequestFollowsLimit ==
    ASSUME NEW l \in Nat, NEW m \in Nat, l <= m, NEW r \in Resources
    PROVE  Truncated(l * RequestPercent[r], 100) <= Truncated(m * RequestPercent[r], 100)
<1>1. RequestPercent[r] \in {80, 90}
  BY DEF RequestPercent, Resources
<1>2. /\ l * RequestPercent[r] \in Nat /\ m * RequestPercent[r] \in Nat
      /\ l * RequestPercent[r] <= m * RequestPercent[r]
  BY <1>1
<1> QED
  BY <1>2, TruncatedGrows

\* Who uses more is given no less: of two pods with as many samples, one of which
\* uses at least as much as the other sample for sample, that one is recommended
\* limits and requests that are no smaller, whatever the thresholds and the
\* rounding (generatePodRecommendation, lines 80-163).
THEOREM RecommendationFollowsUsage ==
    ASSUME NEW th \in Thresholds, NEW h \in Histories, NEW g \in Histories,
           Recommendable(h), Recommendable(g), NEW r \in Resources,
           Len(g[r]) = Len(h[r]), \A i \in 1..Len(h[r]) : h[r][i] <= g[r][i]
    PROVE  /\ Recommended(h, th).limits[r] <= Recommended(g, th).limits[r]
           /\ Recommended(h, th).requests[r] <= Recommended(g, th).requests[r]
<1> DEFINE s == h[r]
           u == g[r]
<1>1. /\ s \in Seq(Nat) /\ u \in Seq(Nat) /\ Len(s) > 0 /\ Len(u) = Len(s) /\ Len(u) > 0
      /\ \A i \in 1..Len(s) : s[i] <= u[i]
  BY SizingAssumption, RecommendationAssumption DEF Recommendable
<1>2. /\ Recommended(h, th).limits[r] = Limit(s, th, r)
      /\ Recommended(g, th).limits[r] = Limit(u, th, r)
      /\ Recommended(h, th).requests[r] = Truncated(Limit(s, th, r) * RequestPercent[r], 100)
      /\ Recommended(g, th).requests[r] = Truncated(Limit(u, th, r) * RequestPercent[r], 100)
  BY DEF Recommended
<1> HIDE DEF s, u
<1>3. OrDefault(th.percentile[r], DefaultPercentile) \in Nat
  BY SizingAssumption DEF OrDefault, DefaultPercentile
<1>4. Percentile(s, OrDefault(th.percentile[r], DefaultPercentile))
        <= Percentile(u, OrDefault(th.percentile[r], DefaultPercentile))
  BY <1>1, <1>3, PercentileFollowsUsage
<1>5. Limit(s, th, r) <= Limit(u, th, r)
  BY <1>1, <1>4, LimitGrows
<1>6. Limit(s, th, r) \in Nat /\ Limit(u, th, r) \in Nat
  BY <1>1, LimitBounds
<1>7. Truncated(Limit(s, th, r) * RequestPercent[r], 100)
        <= Truncated(Limit(u, th, r) * RequestPercent[r], 100)
  BY <1>5, <1>6, RequestFollowsLimit
<1> QED
  BY <1>2, <1>5, <1>7

\* A higher percentile, all else equal, never lowers a recommendation, a percentile
\* that is not given counting as 95 (calculatePercentile, lines 321-345).
THEOREM RecommendationFollowsPercentile ==
    ASSUME NEW th \in Thresholds, NEW more \in Thresholds, NEW r \in Resources,
           more.min[r] = th.min[r], more.max[r] = th.max[r], more.margin = th.margin,
           OrDefault(th.percentile[r], DefaultPercentile)
             <= OrDefault(more.percentile[r], DefaultPercentile),
           NEW h \in Histories, Recommendable(h)
    PROVE  /\ Recommended(h, th).limits[r] <= Recommended(h, more).limits[r]
           /\ Recommended(h, th).requests[r] <= Recommended(h, more).requests[r]
<1> DEFINE s == h[r]
<1>1. s \in Seq(Nat) /\ Len(s) > 0 /\ Ascending(s)
  BY SizingAssumption, RecommendationAssumption DEF Recommendable, Ascending
<1>2. /\ Recommended(h, th).limits[r] = Limit(s, th, r)
      /\ Recommended(h, more).limits[r] = Limit(s, more, r)
      /\ Recommended(h, th).requests[r] = Truncated(Limit(s, th, r) * RequestPercent[r], 100)
      /\ Recommended(h, more).requests[r] = Truncated(Limit(s, more, r) * RequestPercent[r], 100)
  BY DEF Recommended
<1> HIDE DEF s
<1>3. /\ OrDefault(th.percentile[r], DefaultPercentile) \in Nat
      /\ OrDefault(more.percentile[r], DefaultPercentile) \in Nat
  BY SizingAssumption DEF OrDefault, DefaultPercentile
<1>4. Percentile(s, OrDefault(th.percentile[r], DefaultPercentile))
        <= Percentile(s, OrDefault(more.percentile[r], DefaultPercentile))
  BY <1>1, <1>3, PercentileFollowsPercent
<1>5. Limit(s, th, r) <= Limit(s, more, r)
  BY <1>1, <1>4, LimitGrows
<1>6. Limit(s, th, r) \in Nat /\ Limit(s, more, r) \in Nat
  BY <1>1, LimitBounds
<1>7. Truncated(Limit(s, th, r) * RequestPercent[r], 100)
        <= Truncated(Limit(s, more, r) * RequestPercent[r], 100)
  BY <1>5, <1>6, RequestFollowsLimit
<1> QED
  BY <1>2, <1>5, <1>7

-----------------------------------------------------------------------------
(* The loop at rest.                                                       *)

\* What a pod of one container has is what its container has.
LEMMA TotalOfOne ==
    ASSUME NEW s, DOMAIN s = 1..1, Len(s) = 1, s[1] \in Nat
    PROVE  Total(s) = s[1]
<1> DEFINE Right(g) == g = [i \in 0..Len(s) |-> IF i = 0 THEN 0 ELSE g[i - 1] + s[i]]
           g == [i \in 0..1 |-> IF i = 0 THEN 0 ELSE s[1]]
<1>1. Right(g)
  OBVIOUS
<1>2. Sums(s) = CHOOSE h : Right(h)
  BY DEF Sums
<1>3. Right(Sums(s))
  BY <1>1, <1>2, Zenon
<1> DEFINE f == Sums(s)
<1> HIDE DEF f
<1>4. f[0] = 0 /\ f[1] = f[0] + s[1]
  BY <1>3 DEF f
<1> QED
  BY <1>4 DEF Total, f

LEMMA RequestsTyped ==
    ASSUME NEW th \in Thresholds, NEW h \in Histories, NEW r \in Resources, Recommendable(h)
    PROVE  Recommended(h, th).requests[r] \in Nat
<1>1. h[r] \in Seq(Nat) /\ Len(h[r]) > 0
  BY SizingAssumption, RecommendationAssumption DEF Recommendable
<1>2. Limit(h[r], th, r) \in Nat
  BY <1>1, LimitBounds
<1>3. RequestPercent[r] \in Nat
  BY DEF RequestPercent, Resources
<1>4. Limit(h[r], th, r) * RequestPercent[r] \in Nat
  BY <1>2, <1>3
<1>5. Truncated(Limit(h[r], th, r) * RequestPercent[r], 100) \in Nat
  BY <1>4, TruncatedBounds
<1> QED
  BY <1>5 DEF Recommended

\* Two requests within the threshold of each other, either way, do not make a
\* change.
LEMMA NearIsNoChange ==
    ASSUME NEW cur \in Nat, NEW new \in Nat, NEW pct \in Nat,
           100 * new < (100 + pct) * cur, 100 * cur < (100 + pct) * new
    PROVE  ~ (IF cur = 0 \/ new = 0 THEN cur # new
              ELSE (IF new > cur THEN new - cur ELSE cur - new) * 100 >= pct * cur)
<1>1. (100 + pct) * cur = 100 * cur + pct * cur /\ (100 + pct) * new = 100 * new + pct * new
  OBVIOUS
<1>2. cur # 0 /\ new # 0
  OBVIOUS
<1>3. CASE new > cur
  <2>1. (new - cur) * 100 = 100 * new - 100 * cur /\ pct * cur \in Nat
    OBVIOUS
  <2> QED
    BY <1>1, <1>2, <1>3, <2>1
<1>4. CASE new <= cur
  <2>1. (cur - new) * 100 = 100 * cur - 100 * new
    OBVIOUS
  <2>2. cur = new + (cur - new) /\ cur - new \in Nat
    BY <1>4
  <2>3. pct * (new + (cur - new)) = pct * new + pct * (cur - new) /\ pct * (cur - new) \in Nat
    BY <2>2
  <2>4. pct * new <= pct * cur /\ pct * new \in Nat /\ pct * cur \in Nat
    BY <2>2, <2>3
  <2> QED
    BY <1>1, <1>2, <1>4, <2>1, <2>4
<1> QED
  BY <1>3, <1>4

\* Nothing in a state at rest passes.
LEMMA RestPasses ==
    ASSUME Containers = 1, Measured, AtRest, NEW m \in Pods, NEW p \in up
    PROVE  ~ Passes(m, p)
<1> SUFFICES ASSUME Recommendable(history[m])
             PROVE  ~ MeetsChange(Requested(has[p]), Recommended(history[m], t).requests,
                                  OrDefault(t.change, DefaultMinChange))
  BY DEF Passes
<1>1. PICK q \in Pods : /\ Recommendable(history[q])
                        /\ tmpl = [i \in 1..Containers |-> Recommended(history[q], t)]
  BY DEF AtRest
<1> DEFINE pct == OrDefault(t.change, DefaultMinChange)
           cur(r) == Recommended(history[q], t).requests[r]
           new(r) == Recommended(history[m], t).requests[r]
<1>2. t \in Thresholds /\ history[m] \in Histories /\ history[q] \in Histories
  BY DEF Measured
<1>3. pct \in Nat
  BY <1>2, SizingAssumption DEF OrDefault, DefaultMinChange
<1>4. \A r \in Resources : cur(r) \in Nat /\ new(r) \in Nat
  BY <1>1, <1>2, RequestsTyped
<1>5. \A r \in Resources : /\ 100 * new(r) < (100 + pct) * cur(r)
                           /\ 100 * cur(r) < (100 + pct) * new(r)
  BY <1>1 DEF AtRest, Similar
<1>6. ASSUME NEW r \in Resources PROVE Requested(has[p])[r] = cur(r)
  <2> DEFINE rec == Recommended(history[q], t)
  <2>1. has[p] = [i \in 1..1 |-> rec]
    BY <1>1 DEF AtRest
  <2>2. cur(r) = rec.requests[r] /\ rec.requests[r] # Absent
    BY <1>4 DEF Absent
  <2> HIDE DEF rec
  <2> DEFINE s == [i \in DOMAIN has[p] |->
                    IF has[p][i].requests[r] = Absent THEN 0 ELSE has[p][i].requests[r]]
  <2>3. s = [i \in 1..1 |-> rec.requests[r]]
    BY <2>1, <2>2
  <2>4. DOMAIN s = 1..1 /\ Len(s) = 1 /\ s[1] = rec.requests[r]
    BY <2>3
  <2>5. Requested(has[p])[r] = Total(s)
    BY DEF Requested
  <2> HIDE DEF s
  <2>6. Total(s) = s[1]
    BY <1>4, <2>2, <2>4, TotalOfOne
  <2> QED
    BY <2>2, <2>4, <2>5, <2>6
<1> HIDE DEF pct, cur, new
<1>7. ASSUME NEW r \in Resources
      PROVE  ~ (IF cur(r) = 0 \/ new(r) = 0 THEN cur(r) # new(r)
                ELSE (IF new(r) > cur(r) THEN new(r) - cur(r) ELSE cur(r) - new(r)) * 100
                       >= pct * cur(r))
  BY <1>3, <1>4, <1>5, NearIsNoChange
<1>8. ~ MeetsChange(Requested(has[p]), Recommended(history[m], t).requests, pct)
  BY <1>6, <1>7 DEF MeetsChange, new
<1> QED
  BY <1>8 DEF pct

\* Pods of one container: once the template is one of the recommendations, the
\* pods have it and all recommendations are similar, the controller leaves it
\* alone, and analysing its own update leads to no other
\* (generateWorkloadRecommendations, lines 451-497; updateContainerResources).
THEOREM RestIsKept == ASSUME Containers = 1 PROVE Spec => RestKept
<1>1. ASSUME Measured, [Next]_vars PROVE [AtRest => edits' # edits]_vars
  <2> SUFFICES ASSUME AtRest, Next PROVE edits' # edits \/ UNCHANGED vars
    BY <1>1
  <2>1. ~ Slot
    <3>1. \A m \in Pods : Matching(m) \subseteq up
      BY DEF Matching
    <3> QED
      BY <1>1, <3>1, RestPasses DEF Slot
  <2>2. ASSUME NEW p \in Pods PROVE ~ Rollout(p)
    BY DEF Rollout, AtRest
  <2>3. Edited
    BY <2>1, <2>2 DEF Next, UsageChanges, Stop, OwnerEdits
  <2> QED
    BY <1>1, <2>3 DEF Edited, Measured
<1> QED
  BY <1>1, MeasuredInvariant, PTL DEF Spec, RestKept
===============================================================================
