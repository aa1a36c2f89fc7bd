------------------------------- MODULE Analyzers -------------------------------
(***************************************************************************)
(* The classifier and the advanced analyzer on the metrics of a workload   *)
(* as Collection's client returned them, beside the engine.  Their pods    *)
(* come from a Go map, in any order.                                       *)
(***************************************************************************)
EXTENDS Collection, Classifier, SequencesExt

Orders == {q \in [1..Cardinality(DOMAIN metrics) -> DOMAIN metrics] : IsInjective(q)}

Together(order) ==
    [r \in Resources |-> FlattenSeq([i \in DOMAIN order |-> metrics[order[i]][r]])]

Times(h, k) == [r \in Resources |-> [i \in DOMAIN h[r] |-> k[r] * h[r][i]]]

Monotone(s) == \A i \in 2..Len(s) : s[i - 1] <= s[i]
Antitone(s) == \A i \in 2..Len(s) : s[i - 1] >= s[i]

\* The class does not depend on the units, cores or millicores, bytes or
\* mebibytes (analyzeResourcePattern and determineWorkloadClass,
\* workload_classifier.go:126-209).
ClassUnitFree ==
    \A order \in Orders : \A h \in {Together(order)} : Classifiable(h) =>
        Class(Times(h, [cpu |-> 2, memory |-> 3])) = Class(h)

\* "High variability with spikes" (workload_classifier.go:34), which the mock client
\* adds "to ensure bursty classification" (mock.go:63, 76): samples without a trend
\* that vary much and have spikes, of both resources, are classified Bursty.
BurstsAreBursty ==
    \A order \in Orders : \A h \in {Together(order)} :
        /\ Classifiable(h) /\ Class(h) \notin {"Growing", "Shrinking"}
        /\ \A r \in Resources : Varies(h[r], 3) /\ Spikes(h[r]) > 0
        => Class(h) = "Bursty"

\* The trend goes where usage goes: a workload of one pod whose usage of both
\* resources never falls is not Shrinking, and one whose usage never rises is not
\* Growing (analyzeTrend, workload_classifier.go:408-455).
TrendFollowsUsage ==
    \A p \in DOMAIN metrics : DOMAIN metrics = {p} /\ Classifiable(metrics[p]) =>
        /\ (\A r \in Resources : Monotone(metrics[p][r])) => Class(metrics[p]) # "Shrinking"
        /\ (\A r \in Resources : Antitone(metrics[p][r])) => Class(metrics[p]) # "Growing"

\* The two analyzers agree on a workload of one pod without a trend, though one
\* counts spikes as a share and the other by integer division: a Stable one has no
\* variable pattern, and when both resources have a pattern, the spikes and the
\* variation it reports are those of the class.  From 20 to 24 samples there is a
\* class and no pattern to compare it with (workload_classifier.go:147, 188-208;
\* recommendation_engine.go:583, 592, 618-644).
AnalyzersAgree ==
    \A p \in DOMAIN metrics :
        LET h == metrics[p]
            someVariable ==
                \E r \in Resources : Charted(h[r]) /\ PatternType(h[r]) = "variable"
            allCharted == \A r \in Resources : Charted(h[r])
        IN  DOMAIN metrics = {p} /\ Classifiable(h) =>
              /\ Class(h) = "Stable" => ~someVariable
              /\ allCharted /\ Class(h) = "Periodic"
                    => someVariable /\ SpikePattern(h.cpu) = "frequent"
              /\ allCharted /\ Class(h) = "Unpredictable"
                    => someVariable /\ SpikePattern(h.cpu) # "frequent"

\* A pattern that is not variable inspires confidence in the engine, and for a
\* workload of one pod high priority goes to the very resource whose samples the
\* engine takes to be too scattered for a recommendation (analyzeTimeSeries and
\* calculateRecommendationPriority against calculateConfidence,
\* recommendation_engine.go:604-653, 717-726 and 347-385).
PatternsMatchConfidence ==
    \A p \in DOMAIN metrics : \A r \in Resources :
        LET s == metrics[p][r]
        IN  Charted(s) =>
              /\ PatternType(s) # "variable" => Confident(s)
              /\ DOMAIN metrics = {p} => (Priority(s) = "High" <=> ~Confident(s))
===============================================================================
