------------------------------ MODULE Classifier ------------------------------
(***************************************************************************)
(* What the two analyzers beside the engine say of a workload's usage:     *)
(* WorkloadClassifier gives it a class, AdvancedAnalyzer a pattern for     *)
(* each pod and resource and a priority for each resource.  They are       *)
(* library code, called by the demonstration and the integration tests.    *)
(*                                                                         *)
(* Both compute with floats; here every comparison of means, deviations    *)
(* and slopes is squared and cleared of fractions.  Left out are the       *)
(* confidence of a class and the texts.                                    *)
(***************************************************************************)
EXTENDS Recommendation, FiniteSets

CONSTANTS
    MinSamples,     \* samples below which a workload is not classified
    TrendSamples,   \* samples below which there is no trend
    MinSeries       \* a pod with no more samples has no pattern

\* A line takes two samples.
ASSUME ClassifierAssumption ==
    {MinSamples, MinSeries} \subseteq Nat \ {0} /\ TrendSamples \in Nat \ {0, 1}

\* n (n - 1) times the variance of s.
Spread(s) == Len(s) * Total(Squares(s)) - Total(s) * Total(s)

\* The coefficient of variation is more than tenths / 10.
Varies(s, tenths) ==
    100 * Len(s) * Spread(s) > tenths * tenths * (Len(s) - 1) * Total(s) * Total(s)

\* Samples more than two deviations above the mean.
Spikes(s) ==
    Cardinality({i \in DOMAIN s :
        LET above == Len(s) * s[i] - Total(s)
        IN  above > 0 /\ (Len(s) - 1) * above * above > 4 * Len(s) * Spread(s)})

-----------------------------------------------------------------------------
(* WorkloadClassifier.  s holds the samples of all pods, one pod after the *)
(* other.                                                                  *)

Magnitude(x) == IF x < 0 THEN -x ELSE x

\* Mutant: positions count from 1 in the products, from 0 in their sum.
RiseFromOne(s) == 2 * Total([i \in DOMAIN s |-> i * s[i]]) - (Len(s) - 1) * Total(s)

\* The slope of the regression line is 6 Rise / Run, positions counting from 0.
Rise(s) == 2 * Total([i \in DOMAIN s |-> (i - 1) * s[i]]) - (Len(s) - 1) * Total(s)
Run(s)  == Len(s) * (Len(s) * Len(s) - 1)

\* Mutant: the strength is the slope itself, not its share of the mean.
TrendAbsolute(s) ==
    LET slope == 6000 * Magnitude(Rise(s))
        share == Total(s) * (Run(s) \div Len(s))
    IN  IF Len(s) < TrendSamples \/ Total(s) = 0 \/ slope < share
        THEN [direction |-> "stable", strong |-> FALSE]
        ELSE [direction |-> IF Rise(s) > 0 THEN "increasing" ELSE "decreasing",
              strong    |-> 60 * Magnitude(Rise(s)) > 7 * Run(s)]

\* analyzeTrend: a slope of a thousandth of the mean counts, one of more than
\* seven thousandths is strong.
Trend(s) ==
    LET slope == 6000 * Magnitude(Rise(s))
        share == Total(s) * (Run(s) \div Len(s))
    IN  IF Len(s) < TrendSamples \/ Total(s) = 0 \/ slope < share
        THEN [direction |-> "stable", strong |-> FALSE]
        ELSE [direction |-> IF Rise(s) > 0 THEN "increasing" ELSE "decreasing",
              strong    |-> slope > 7 * share]

Classifiable(h) == \A r \in Resources : Len(h[r]) >= MinSamples

\* determineWorkloadClass
Class(h) ==
    LET trend == [r \in Resources |-> Trend(h[r])]
        Some(direction) == \E r \in Resources : trend[r].direction = direction
        spikes == Spikes(h.cpu)
        n      == Len(h.cpu)
    IN  IF (\E r \in Resources : trend[r].strong) /\ Some("increasing") THEN "Growing"
        ELSE IF (\E r \in Resources : trend[r].strong) /\ Some("decreasing") THEN "Shrinking"
        ELSE IF ~ \E r \in Resources : Varies(h[r], 3) THEN "Stable"
        ELSE IF n < 10 * spikes /\ 10 * spikes < 3 * n THEN "Periodic"
        ELSE IF \E r \in Resources : 10 * Spikes(h[r]) > 3 * Len(h[r]) THEN "Bursty"
        ELSE "Unpredictable"

-----------------------------------------------------------------------------
(* AdvancedAnalyzer.  s holds the samples of one pod; where the code       *)
(* divides by a mean of zero, its comparisons with the result are false.   *)

\* detectUsagePatterns: which samples get a pattern at all.
Charted(s) == Len(s) > MinSeries

\* Mutant: the bounds of the confidence score.
PatternTypeLoose(s) ==
    IF Varies(s, 6) THEN "variable" ELSE IF Varies(s, 3) THEN "moderate" ELSE "steady"

\* analyzeTimeSeries
PatternType(s) ==
    IF Varies(s, 3) THEN "variable" ELSE IF Varies(s, 1) THEN "moderate" ELSE "steady"

\* Mutant: as many as a tenth.
SpikePatternFrom(s) ==
    IF Spikes(s) >= Len(s) \div 10 THEN "frequent"
    ELSE IF Spikes(s) > 0 THEN "occasional" ELSE "none"

SpikePattern(s) ==
    IF Spikes(s) > Len(s) \div 10 THEN "frequent"
    ELSE IF Spikes(s) > 0 THEN "occasional" ELSE "none"

\* calculateRecommendationPriority
Priority(s) == IF Varies(s, 5) THEN "High" ELSE IF Varies(s, 2) THEN "Medium" ELSE "Low"
===============================================================================
