---------------------------- MODULE Recommendation ----------------------------
(***************************************************************************)
(* The recommendation engine: from the usage samples of a pod to the       *)
(* requests and limits recommended for it, and the controller's test of    *)
(* whether they differ enough from what the pod has.                       *)
(*                                                                         *)
(* CPU is counted in millicores and memory in bytes.  The code computes    *)
(* with floats and truncates; here numbers are exact (percentiles in       *)
(* hundredths, limits in Scale-ths of a unit), and a truncation of a whole *)
(* number may still end one below it, for the numbers in Lossy: 1.16 cores *)
(* become 1160 millicores, but 0.145 * 0.8 becomes 115.                    *)
(***************************************************************************)
EXTENDS Integers, Sequences, TLC

CONSTANTS
    MinDataPoints,      \* samples below which a pod is skipped
    Lossy               \* whole numbers that floats reach from below

ASSUME RecommendationAssumption == MinDataPoints \in Nat \ {0} /\ Lossy \subseteq Nat \ {0}

Resources == {"cpu", "memory"}
Absent    == -1         \* the resource list has no such entry

DefaultSafetyMargin == 20
DefaultPercentile   == 95
DefaultMinChange    == 10
RequestPercent      == [cpu |-> 80, memory |-> 90]  \* of the limit
Scale               == 100 * 100

\* A threshold of zero is taken as not given.
OrDefault(given, default) == IF given > 0 THEN given ELSE default

Truncated(n, d) ==
    IF n % d = 0 /\ n \div d \in Lossy THEN (n \div d) - 1 ELSE n \div d

\* The engine sorts the samples of a resource first.
Sorted(s) == SortSeq(s, <)

\* Mutant: the index of the code's arrays, which start at 0, taken as it is.
PercentileOffByOne(s, pct) ==
    LET index == (pct * (Len(s) - 1)) \div 100
    IN  100 * s[IF index = 0 THEN 1 ELSE index]

(* calculatePercentile of the sorted samples s, in hundredths: between two *)
(* samples it interpolates.                                                *)
Percentile(s, pct) ==
    LET index  == pct * (Len(s) - 1)
        lower  == 1 + (index \div 100)
        weight == index % 100
    IN  IF pct <= 0 THEN 100 * s[1]
        ELSE IF pct >= 100 THEN 100 * s[Len(s)]
        ELSE IF weight = 0 THEN 100 * s[lower]
        ELSE s[lower] * (100 - weight) + s[lower + 1] * weight

\* calculateMean: the samples are added up one after the other.
Sums(s) ==
    LET upto[i \in 0..Len(s)] == IF i = 0 THEN 0 ELSE upto[i - 1] + s[i] IN upto

Total(s) == Sums(s)[Len(s)]

Squares(s) == [i \in DOMAIN s |-> s[i] * s[i]]

(* calculateConfidence is at least 70, the default threshold, when the     *)
(* coefficient of variation is at most 1/2: at least 70 up to there, at    *)
(* most 30 + 20, boosted by a tenth, beyond.  Squared and cleared of       *)
(* fractions; a single sample has confidence 50.                           *)
Confident(s) ==
    LET n   == Len(s)
        sum == Total(s)
    IN  n >= 2 /\ 4 * n * (n * Total(Squares(s)) - sum * sum) <= (n - 1) * sum * sum

\* Mutant: the maximum is applied first.
BoundedMinLast(x, min, max) ==
    LET capped == IF max > 0 /\ x > max * Scale THEN max * Scale ELSE x
    IN  IF min > 0 /\ capped < min * Scale THEN min * Scale ELSE capped

\* The minimum is applied, then the maximum; zero means no bound.
Bounded(x, min, max) ==
    LET raised == IF min > 0 /\ x < min * Scale THEN min * Scale ELSE x
    IN  IF max > 0 /\ raised > max * Scale THEN max * Scale ELSE raised

\* analyzeCPUUsage and analyzeMemoryUsage: the limit of resource r.
Limit(s, t, r) ==
    Truncated(Bounded(Percentile(s, OrDefault(t.percentile[r], DefaultPercentile))
                        * (100 + OrDefault(t.margin, DefaultSafetyMargin)),
                      t.min[r], t.max[r]),
              Scale)

\* generatePodRecommendation: requests are a share of the limits; a pod with
\* too few samples, or too scattered ones, gets no recommendation.
Recommendable(h) == \A r \in Resources : Len(h[r]) >= MinDataPoints /\ Confident(h[r])

Recommended(h, t) ==
    LET limits == [r \in Resources |-> Limit(h[r], t, r)]
    IN  [limits   |-> limits,
         requests |-> [r \in Resources |-> Truncated(limits[r] * RequestPercent[r], 100)]]

\* getCurrentResources: the requests of all containers of a pod, summed.
Requested(containers) ==
    [r \in Resources |->
        Total([i \in DOMAIN containers |->
            IF containers[i].requests[r] = Absent THEN 0 ELSE containers[i].requests[r]])]

\* Mutant: any difference will do.
MeetsChangeAny(current, recommended, pct) == current # recommended

\* meetsChangeThreshold: one of the two requests differs by pct percent of the
\* current one, or only one of them is zero.
MeetsChange(current, recommended, pct) ==
    \E r \in Resources :
        LET cur == current[r]
            new == recommended[r]
        IN  IF cur = 0 \/ new = 0 THEN cur # new
            ELSE (IF new > cur THEN new - cur ELSE cur - new) * 100 >= pct * cur
===============================================================================
