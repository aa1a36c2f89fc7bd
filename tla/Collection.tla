------------------------------ MODULE Collection ------------------------------
(***************************************************************************)
(* One analysis from inside: for each workload found, Prometheus is asked  *)
(* for the CPU and then for the memory samples of its pods, the engine     *)
(* makes a recommendation from what comes back, and it is kept if it       *)
(* differs enough from what a pod of the workload has.  Meanwhile time     *)
(* passes, samples come in, pods start and stop.  How the pods are found   *)
(* is Targeting's subject, what becomes of the recommendations             *)
(* Reconciler's.                                                           *)
(*                                                                         *)
(* Time is counted in query steps, of a minute: a pod has one sample of    *)
(* each resource for every step it runs.                                   *)
(***************************************************************************)
EXTENDS Recommendation, FiniteSets

CONSTANTS
    Pods,           \* names of pods, each with what never changes of it:
    Owner,          \* Owner[p]: its workload, [ns, type, name]
    App,            \* App[p]: the value of its label app
    Has,            \* Has[p]: its containers
    MockPods,       \* names of pods that only the mock client knows
    Usages,         \* what the usage over time may be, past and to come
    Thresholds,     \* thresholds users give
    Windows,        \* windows users give: Unset, Malformed or a number of steps
    DefaultWindow,  \* of seven days
    Hour,
    MaxPoints,      \* points Prometheus returns for a series at most
    Startup,        \* the sets of pods that may run at first
    Warmup,         \* the time of the first analysis
    MaxClock, MaxEdits      \* bounds: time, and starts and stops of pods

Unset     == -1
Malformed == -2
Measured  == Pods \cup MockPods
Workloads == {Owner[p] : p \in Pods}
Never     == MaxClock + 2

ASSUME CollectionAssumption ==
    /\ Pods \cap MockPods = {} /\ Pods # {} /\ MockPods # {}
    /\ IsFiniteSet(Measured)
    /\ \A p \in Pods : Owner[p] = [ns |-> Owner[p].ns, type |-> Owner[p].type,
                                   name |-> Owner[p].name]
    /\ Usages \subseteq [Measured -> [Resources -> [1..MaxClock -> Nat]]]
    /\ Windows \subseteq Nat \cup {Unset, Malformed}
    /\ {DefaultWindow, Hour, MaxPoints, MaxEdits} \subseteq Nat
    /\ Warmup \in Nat \ {0} /\ MaxClock \in Nat
    /\ Startup \subseteq SUBSET Pods /\ Warmup <= MaxClock

VARIABLES
    clock, usage,
    t, window,      \* the thresholds and the window of the resource
    source,         \* the client main picked: "prometheus" or "mock"
    born, died,     \* first and last step of each pod, or Never
    pc,
    todo,           \* the workloads still to be analysed
    groups,         \* groups[w]: the pods of w that were found
    at,             \* the workload being analysed
    end,            \* end[w]: the end of the range w was last queried for
    cpu,            \* the answer to the first query: pod -> samples
    metrics,        \* what the client returned: pod -> samples of each resource
    recs,           \* recs[w]: the recommendations kept, [pod, size] each
    failed,         \* the workloads whose metrics could not be had
    edits

world == <<usage, t, window, source>>
loop  == <<pc, todo, groups, at, end, cpu, metrics, recs, failed>>
vars  == <<clock, world, born, died, loop, edits>>

NoAnswer == [p \in {} |-> <<>>]

Init ==
    /\ clock = Warmup
    /\ usage \in Usages /\ t \in Thresholds /\ window \in Windows
    /\ source \in {"prometheus", "mock"}
    /\ \E up \in Startup : born = [p \in Pods |-> IF p \in up THEN 1 ELSE Never]
    /\ died = [p \in Pods |-> Never]
    /\ pc = "idle" /\ todo = {} /\ groups = [w \in Workloads |-> {}]
    /\ at = CHOOSE w \in Workloads : TRUE
    /\ end = [w \in Workloads |-> 0] /\ cpu = NoAnswer /\ metrics = NoAnswer
    /\ recs = [w \in Workloads |-> {}] /\ failed = {}
    /\ edits = 0

Runs(p) == born[p] # Never /\ died[p] = Never

-----------------------------------------------------------------------------
(* The metrics clients.                                                    *)

\* An unreadable window is taken as the default.
Window == IF window \in {Unset, Malformed} THEN DefaultWindow ELSE window

\* Mutant: any window that can be read.
ValidWindowUnbounded == window # Malformed

\* validateAnalysisWindow: an hour at least and 90 days at most.
ValidWindow ==
    window # Malformed /\ (window # Unset => Hour <= window /\ window <= 90 * 24 * Hour)

QueryTypes == {"Deployment", "StatefulSet", "DaemonSet", "Job"}

\* buildWorkloadSelector, with the namespace of the query: a label names the
\* workload; other types are taken by the label app.
Selects(w, p) ==
    /\ Owner[p].ns = w.ns
    /\ IF w.type \in QueryTypes THEN Owner[p].type = w.type /\ Owner[p].name = w.name
       ELSE App[p] = w.name

\* Steps e - Window to e of pod p; a rate takes two samples.
Steps(p, r, e) ==
    LET first == IF r = "cpu" THEN born[p] + 1 ELSE born[p]
    IN  {k \in 1..MaxClock : e - Window <= k /\ k <= e /\ first <= k /\ k <= died[p]}

\* The answer to a query for resource r of p in the range that ends at e.
Series(p, r, e) ==
    LET steps == Steps(p, r, e)
        first == CHOOSE k \in steps : \A l \in steps : k <= l
    IN  IF steps = {} THEN <<>>
        ELSE SubSeq(usage[p][r], first, first + Cardinality(steps) - 1)

\* A query for resource r of w: pods without samples are not in the answer.
Query(w, r, e) ==
    [p \in {q \in Pods : Selects(w, q) /\ Steps(q, r, e) # {}} |-> Series(p, r, e)]

\* Mutant: the client asks once more for the time.
PairedLate(memory) ==
    [p \in DOMAIN cpu \cup DOMAIN memory |->
        [cpu    |-> IF p \in DOMAIN cpu THEN cpu[p] ELSE <<>>,
         memory |-> IF p \in DOMAIN memory THEN Series(p, "memory", clock) ELSE <<>>]]

\* GetWorkloadMetrics puts the two answers together by the names of the pods.
Paired(memory) ==
    [p \in DOMAIN cpu \cup DOMAIN memory |->
        [cpu    |-> IF p \in DOMAIN cpu THEN cpu[p] ELSE <<>>,
         memory |-> IF p \in DOMAIN memory THEN memory[p] ELSE <<>>]]

\* The mock client: one sample a step, and one at least.
MockSteps == 1..(IF Window = 0 THEN 1 ELSE IF Window > MaxClock THEN MaxClock ELSE Window)
Mocked    == [m \in MockPods |-> [r \in Resources |-> [k \in MockSteps |-> usage[m][r][k]]]]

-----------------------------------------------------------------------------
(* The engine and the change threshold, for the metrics m of a workload.   *)

Ordered(h) == [r \in Resources |-> Sorted(h[r])]

\* Mutant: one pod without a recommendation ends the loop over the pods.
AdvisedAll(m) ==
    IF \A p \in DOMAIN m : Recommendable(m[p])
    THEN {[pod |-> p, size |-> Recommended(Ordered(m[p]), t)] : p \in DOMAIN m} ELSE {}

\* GenerateRecommendations: a pod without one does not keep the others from theirs.
Advised(m) ==
    {[pod |-> p, size |-> Recommended(Ordered(m[p]), t)] :
        p \in {q \in DOMAIN m : Recommendable(m[q])}}

\* The pods of w that rec may be compared with: the one it was made from, or,
\* if that was not found, any.
Comparable(rec, w) == IF rec.pod \in groups[w] THEN {rec.pod} ELSE groups[w]

Worth(rec, p) ==
    MeetsChange(Requested(Has[p]), rec.size.requests, OrDefault(t.change, DefaultMinChange))

\* The rest of generateWorkloadRecommendations, once the client has answered.
Answered(m) ==
    /\ metrics' = m
    /\ \E advised \in {Advised(m)} : \E pick \in [advised -> groups[at]] :
         /\ \A rec \in advised : pick[rec] \in Comparable(rec, at)
         /\ recs' = [recs EXCEPT ![at] = {rec \in advised : Worth(rec, pick[rec])}]
    /\ pc' = "next" /\ cpu' = NoAnswer
    /\ UNCHANGED <<clock, world, born, died, todo, groups, at, end, failed, edits>>

-----------------------------------------------------------------------------
(* The loop over the workloads.                                            *)

Discover ==
    /\ pc \in {"idle", "done"}
    /\ groups' = [w \in Workloads |-> {p \in Pods : Runs(p) /\ Owner[p] = w}]
    /\ todo' = {Owner[p] : p \in {q \in Pods : Runs(q)}}
    /\ recs' = [w \in Workloads |-> {}]
    /\ end' = [w \in Workloads |-> 0] /\ failed' = {} /\ metrics' = NoAnswer
    /\ pc' = "next"
    /\ UNCHANGED <<clock, world, born, died, at, cpu, edits>>

\* Mutant: the range is rounded up to a whole step.
StartAhead(w) ==
    /\ pc = "next" /\ w \in todo
    /\ todo' = todo \ {w}
    /\ at' = w /\ end' = [end EXCEPT ![w] = clock + 1]
    /\ pc' = IF source = "mock" THEN "mock" ELSE "cpu"
    /\ metrics' = NoAnswer
    /\ UNCHANGED <<clock, world, born, died, groups, cpu, recs, failed, edits>>

\* The next workload, in map order, and the range of its queries.
Start(w) ==
    /\ pc = "next" /\ w \in todo
    /\ todo' = todo \ {w}
    /\ at' = w /\ end' = [end EXCEPT ![w] = clock]
    /\ pc' = IF source = "mock" THEN "mock" ELSE "cpu"
    /\ metrics' = NoAnswer
    /\ UNCHANGED <<clock, world, born, died, groups, cpu, recs, failed, edits>>

\* Prometheus refuses a range of too many points.
InRange == Window <= MaxPoints

AnswerCpu ==
    /\ pc = "cpu" /\ InRange
    /\ cpu' = Query(at, "cpu", end[at])
    /\ pc' = "memory"
    /\ UNCHANGED <<clock, world, born, died, todo, groups, at, end, metrics, recs, failed, edits>>

AnswerMemory == pc = "memory" /\ Answered(Paired(Query(at, "memory", end[at])))

AnswerMock == pc = "mock" /\ Answered(Mocked)

\* Mutant: the workload is tried again.
QueryFailsRetried ==
    /\ pc \in {"cpu", "memory"}
    /\ failed' = failed \cup {at}
    /\ pc' = "next" /\ cpu' = NoAnswer /\ todo' = todo \cup {at}
    /\ UNCHANGED <<clock, world, born, died, groups, at, end, metrics, recs, edits>>

\* An error, or no answer at all: the workload is skipped.
QueryFails ==
    /\ pc \in {"cpu", "memory"}
    /\ failed' = failed \cup {at}
    /\ pc' = "next" /\ cpu' = NoAnswer
    /\ UNCHANGED <<clock, world, born, died, todo, groups, at, end, metrics, recs, edits>>

End ==
    /\ pc = "next" /\ todo = {}
    /\ pc' = "done"
    /\ UNCHANGED <<clock, world, born, died, todo, groups, at, end, cpu, metrics, recs,
                   failed, edits>>

-----------------------------------------------------------------------------
(* The world.                                                              *)

Tick ==
    /\ clock < MaxClock
    /\ clock' = clock + 1
    /\ UNCHANGED <<world, born, died, loop, edits>>

PodStarts(p) ==
    /\ born[p] = Never /\ edits < MaxEdits
    /\ born' = [born EXCEPT ![p] = clock + 1]
    /\ edits' = edits + 1
    /\ UNCHANGED <<clock, world, died, loop>>

PodStops(p) ==
    /\ Runs(p) /\ edits < MaxEdits
    /\ died' = [died EXCEPT ![p] = clock]
    /\ edits' = edits + 1
    /\ UNCHANGED <<clock, world, born, loop>>

Work == (\E w \in Workloads : Start(w)) \/ AnswerCpu \/ AnswerMemory \/ AnswerMock
        \/ QueryFails \/ End

Next == Discover \/ Work \/ Tick \/ \E p \in Pods : PodStarts(p) \/ PodStops(p)

Spec == Init /\ [][Next]_vars

-----------------------------------------------------------------------------
(* Properties.                                                             *)

TypeOK ==
    /\ clock \in Warmup..MaxClock /\ usage \in Usages
    /\ t \in Thresholds /\ window \in Windows /\ source \in {"prometheus", "mock"}
    /\ born \in [Pods -> Nat] /\ died \in [Pods -> Nat]
    /\ \A p \in Pods : born[p] \in 1..clock + 1 \/ born[p] = Never
    /\ \A p \in Pods : died[p] \in Warmup..clock \/ died[p] = Never
    /\ pc \in {"idle", "next", "cpu", "memory", "mock", "done"}
    /\ todo \subseteq Workloads /\ failed \subseteq Workloads /\ at \in Workloads
    /\ groups \in [Workloads -> SUBSET Pods]
    /\ end \in [Workloads -> 0..clock]
    /\ DOMAIN cpu \subseteq Pods /\ DOMAIN metrics \subseteq Measured
    /\ recs = [w \in Workloads |-> recs[w]]
    /\ \A w \in Workloads : \A rec \in recs[w] : rec.pod \in Measured
    /\ edits \in 0..MaxEdits

\* The samples of p in the range w was queried for.
Known(p, w) == [r \in Resources |-> Series(p, r, end[w])]

\* What the engine makes of the samples of p in that range.
Fitting(p, w) == [pod |-> p, size |-> Recommended(Ordered(Known(p, w)), t)]

\* A recommendation rests on CPU and memory samples of one pod, over one range of
\* time, the one fixed before the first query: whatever happens between the
\* queries, and while other workloads are analysed, changes nothing in it.  The
\* pod is one that the workload's label selects, which makes it a pod of the
\* workload for the four types that have a label of their own
\* (PrometheusClient.GetWorkloadMetrics, lines 96-197; buildWorkloadSelector).
SamplesBelongTogether ==
    source = "prometheus" =>
        \A w \in Workloads : \A rec \in recs[w] :
            /\ Selects(w, rec.pod)
            /\ Recommendable(Known(rec.pod, w)) /\ rec = Fitting(rec.pod, w)
            /\ w.type \in QueryTypes => Owner[rec.pod] = w

\* "Get CPU usage metrics for all pods in the workload" (prometheus.go:107, and 122
\* for memory): what is recommended for a workload comes from pods of that workload.
OwnSamples ==
    source = "prometheus" =>
        \A w \in Workloads : \A rec \in recs[w] : Owner[rec.pod] = w

\* p has the samples for a recommendation, and that is worth it.
Deserves(p, w) ==
    Selects(w, p) /\ Recommendable(Known(p, w)) /\ Worth(Fitting(p, w), p)

\* When the loop is over, a workload lacks a recommendation only if its own
\* metrics could not be had, no pod of it gave enough steady samples, or what
\* was recommended was not worth it: no workload and no pod suffers for another
\* (Reconcile, lines 127-148; GenerateRecommendations, lines 55-71).
NothingLost ==
    pc = "done" /\ source = "prometheus" =>
        \A w \in Workloads \ failed : \A p \in groups[w] :
            end[w] > 0 /\ (Deserves(p, w) => Fitting(p, w) \in recs[w])

\* The pods that have samples for the whole window: every one the mock client
\* makes up, and with Prometheus, if it answers so long a range, those the query
\* selects that ran all that time.
Filling ==
    IF source = "mock" THEN MockPods
    ELSE {p \in Pods : /\ InRange /\ Selects(at, p)
                       /\ born[p] + Window <= end[at] /\ end[at] <= died[p]}

\* The window in force, whether validateAnalysisWindow admits it or the default
\* replaces one that is missing or cannot be read, is long enough: no pod with
\* samples for all of it is missing from the answer or falls short of the engine's
\* minimum of data points.  Windows beyond Prometheus' range are admitted too, and
\* give no answer at all (validateAnalysisWindow, podrightsizing_webhook.go:180-207;
\* generateWorkloadRecommendations, lines 422-427; MinDataPoints,
\* recommendation_engine.go:34).
WindowSuffices ==
    pc = "next" /\ end[at] > 0 /\ at \notin failed /\ (ValidWindow \/ window = Malformed) =>
        \A p \in Filling :
            p \in DOMAIN metrics /\ \A r \in Resources : Len(metrics[p][r]) >= MinDataPoints

\* The steps that are left of an analysis, at most: three for a workload to do,
\* what the one in work still needs, and the last.
Left ==
    3 * Cardinality(todo) +
        (IF pc = "cpu" THEN 3 ELSE IF pc \in {"memory", "mock"} THEN 2
         ELSE IF pc = "next" THEN 1 ELSE 0)

\* A step of the loop, a failed query no less than an answer, uses up one of a
\* number of steps that pods and time add nothing to: an analysis is over after
\* three steps for each workload and one more (Reconcile, lines 127-148).
StepsRunOut ==
    [][/\ Left \in Nat
       /\ Work => Left' < Left
       /\ ~Discover => Left' <= Left
       /\ Discover => Left' <= 3 * Cardinality(Workloads) + 1]_vars
===============================================================================
