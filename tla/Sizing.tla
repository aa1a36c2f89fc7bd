-------------------------------- MODULE Sizing --------------------------------
(***************************************************************************)
(* The feedback loop the controller closes around one workload: in every   *)
(* slot of the schedule it samples the pods, picks a recommendation and    *)
(* rewrites the pod template; the rollout brings the template to the pods, *)
(* which the next slot samples again.  How the calls within one slot       *)
(* interleave with the rest of the world is Reconciler's subject; here a   *)
(* slot is one step.                                                       *)
(***************************************************************************)
EXTENDS Recommendation, FiniteSets

CONSTANTS
    Pods,           \* the pods the metrics source knows: running, or gone
                    \* within the analysis window
    Containers,     \* the number of containers of a pod
    Histories,      \* what the samples of a pod may be, sorted
    Thresholds,     \* thresholds users give
    Starts,         \* resources a user may put in the template
    MaxEdits        \* bound: changes of usage, pods and template

Demand == [requests : [Resources -> Int], limits : [Resources -> Int]]

ASSUME SizingAssumption ==
    /\ Containers \in Nat \ {0}
    /\ Histories \subseteq [Resources -> Seq(Nat)]
    /\ \A h \in Histories : \A r \in Resources : \A i, j \in DOMAIN h[r] :
          i <= j => h[r][i] <= h[r][j]
    /\ Thresholds \subseteq [percentile : [Resources -> Nat], min : [Resources -> Nat],
                             max : [Resources -> Nat], margin : Nat, change : Nat]
    /\ Starts \subseteq Demand
    /\ MaxEdits \in Nat

VARIABLES
    t,              \* the thresholds of the resource
    history,        \* history[p]: p's samples
    up,             \* the pods that run
    has,            \* has[p]: the containers of p
    tmpl,           \* the containers of the template
    edits

vars == <<t, history, up, has, tmpl, edits>>

Init ==
    /\ t \in Thresholds
    /\ history \in [Pods -> Histories]
    /\ up \in SUBSET Pods \ {{}}
    /\ \E res \in Starts : tmpl = [i \in 1..Containers |-> res]
    /\ has = [p \in Pods |-> tmpl]
    /\ edits = 0

\* The pod a recommendation made from the samples of m is compared with: m, or
\* any other when m does not run.
Matching(m) == IF m \in up THEN {m} ELSE up

\* A recommendation for the pod with samples of m is worth its update.
Passes(m, p) ==
    /\ Recommendable(history[m])
    /\ MeetsChange(Requested(has[p]), Recommended(history[m], t).requests,
                   OrDefault(t.change, DefaultMinChange))

\* updateContainerResources: every container of the template is given the same.
Given(rec) == [i \in DOMAIN tmpl |-> rec]

\* The pods are analysed in map order, and the first recommendation that passes
\* stands for all of them: no average is made.
Slot ==
    /\ \E m \in Pods : \E p \in Matching(m) :
         /\ Passes(m, p)
         /\ tmpl' = Given(Recommended(history[m], t))
    /\ UNCHANGED <<t, history, up, has, edits>>

\* p is recreated from the template.
Rollout(p) ==
    /\ p \in up /\ has[p] # tmpl
    /\ has' = [has EXCEPT ![p] = tmpl]
    /\ UNCHANGED <<t, history, up, tmpl, edits>>

Edited == edits < MaxEdits /\ edits' = edits + 1

UsageChanges(p) ==
    /\ \E h \in Histories \ {history[p]} : history' = [history EXCEPT ![p] = h]
    /\ Edited
    /\ UNCHANGED <<t, up, has, tmpl>>

\* p goes for good; its samples stay in the window.
Stop(p) ==
    /\ p \in up /\ up # {p}
    /\ up' = up \ {p}
    /\ Edited
    /\ UNCHANGED <<t, history, has, tmpl>>

OwnerEdits ==
    /\ \E res \in Starts : tmpl' = [i \in DOMAIN tmpl |-> res]
    /\ Edited
    /\ UNCHANGED <<t, history, up, has>>

Next ==
    \/ Slot
    \/ \E p \in Pods : Rollout(p) \/ UsageChanges(p) \/ Stop(p)
    \/ OwnerEdits

Spec == Init /\ [][Next]_vars

\* Slots come round as long as the schedule fires, and rollouts progress.
FairSpec == Spec /\ WF_vars(Slot) /\ \A p \in Pods : WF_vars(Rollout(p))

-----------------------------------------------------------------------------
(* Properties.                                                             *)

\* What the engine recommends respects the maximum the user gave, and the
\* minimum when the two agree (one lost unit apart); a request never exceeds
\* its limit (analyzeCPUUsage, lines 222-241; generatePodRecommendation, 130-150).
WithinBounds ==
    \A p \in Pods : Recommendable(history[p]) =>
        LET rec == Recommended(history[p], t)
        IN  \A r \in Resources :
              /\ 0 <= rec.requests[r] /\ rec.requests[r] <= rec.limits[r]
              /\ t.max[r] > 0 => rec.limits[r] <= t.max[r]
              /\ t.min[r] > 0 /\ (t.max[r] = 0 \/ t.min[r] <= t.max[r])
                    => rec.limits[r] >= t.min[r] - 1

\* The limit covers at least as many samples as lie at or below the percentile's
\* index, counted from the lowest sample at index 0; from a percentile of 100 on
\* it covers them all.  Only the maximum may cut it below that
\* (calculatePercentile, lines 321-345, and the margin, lines 214-220).
CoversSamples ==
    \A p \in Pods : \A r \in Resources : Recommendable(history[p]) =>
        LET s       == history[p][r]
            limit   == Limit(s, t, r)
            covered == {i \in DOMAIN s : s[i] <= limit}
            pct     == OrDefault(t.percentile[r], DefaultPercentile)
        IN  \/ t.max[r] > 0 /\ limit + 1 >= t.max[r]
            \/ covered = DOMAIN s
            \/ pct < 100 /\ 100 * Cardinality(covered) > pct * (Len(s) - 1)

\* The recommendations of all pods are within the change threshold of each other.
Similar ==
    LET pct == OrDefault(t.change, DefaultMinChange)
        Near(a, b) == 100 * a < (100 + pct) * b
    IN  \A p, q \in Pods : Recommendable(history[p]) /\ Recommendable(history[q]) =>
          \A r \in Resources : Near(Recommended(history[p], t).requests[r],
                                   Recommended(history[q], t).requests[r])

\* Once usage is steady and similar in all pods, the template comes to rest,
\* whatever it was before, and whichever pod is picked in each slot: analysing
\* what one's own update did does not lead to another update
\* (generateWorkloadRecommendations, lines 451-497; updateContainerResources).
Settles == <>[]Similar => <>[][tmpl' = tmpl]_vars

\* The template is what is recommended for some pod, and the pods that run have it.
AtRest ==
    /\ Similar
    /\ \E m \in Pods : /\ Recommendable(history[m])
                       /\ tmpl = [i \in 1..Containers |-> Recommended(history[m], t)]
    /\ \A p \in up : has[p] = tmpl

\* From there nothing moves but what users and usage do: no slot finds a pod,
\* among those that run or those gone, whose recommendation is worth an update
\* (generateWorkloadRecommendations, lines 451-497).
RestKept == [][AtRest => edits' # edits]_vars

\* An update is made for a change of at least the threshold: some container of
\* some pod gets requests that differ that much from those it has
\* (MinChangeThreshold, podrightsizing_types.go:128; meetsChangeThreshold).
MinChangeHeld ==
    [][tmpl' # tmpl /\ edits' = edits =>
         \E p \in up : \E i \in DOMAIN tmpl :
             MeetsChange(Requested(<<has[p][i]>>), tmpl'[i].requests,
                         OrDefault(t.change, DefaultMinChange))]_vars
===============================================================================
