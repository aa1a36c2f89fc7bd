--------------------------- MODULE AnalysisSlots ----------------------------
(***************************************************************************)
(* What the controller promises to the owner of a workload, with no queue, *)
(* cache, phase or version in sight: an analysis is recorded at most once  *)
(* per firing of the schedule in force, resources are changed only on the  *)
(* strength of an analysis recorded under a spec that allows it, and each  *)
(* such analysis changes a workload at most once.                          *)
(***************************************************************************)
EXTENDS Schedule

CONSTANTS Prs, Workloads, Targets, Specs, Values

VARIABLES
    clock,
    spec,       \* spec[p]: the spec in force
    last,       \* last[p]: when p's latest analysis was recorded
    grant,      \* grant[p]: workloads that analysis may still change
    tmpl,
    edits       \* how many changes the owners and users have made

vars == <<clock, spec, last, grant, tmpl, edits>>

Applies(s) == ~s.dryRun /\ s.strategy # "manual"

Init ==
    /\ clock = 1
    /\ spec \in [Prs -> Specs]
    /\ last = [p \in Prs |-> Never]
    /\ grant = [p \in Prs |-> {}]
    /\ tmpl \in [Workloads -> Values]
    /\ edits = 0

TimePasses ==
    /\ clock' = clock + 1
    /\ UNCHANGED <<spec, last, grant, tmpl, edits>>

Respecify(p) ==
    /\ edits' = edits + 1
    /\ \E s \in Specs : spec' = [spec EXCEPT ![p] = s]
    /\ UNCHANGED <<clock, last, grant, tmpl>>

\* An analysis made at t is recorded, now or a little later.
Record(p) ==
    /\ \E t \in 1..clock :
         /\ ShouldRun(spec[p].schedule, last[p], t)
         /\ last' = [last EXCEPT ![p] = t]
    /\ grant[p] = {}
    /\ \E granted \in SUBSET Targets[p] :
         /\ Applies(spec[p]) \/ granted = {}
         /\ grant' = [grant EXCEPT ![p] = granted]
    /\ UNCHANGED <<clock, spec, tmpl, edits>>

\* The controller changes w for p and is done with it.
Resize(p, w) ==
    /\ w \in grant[p]
    /\ grant' = [grant EXCEPT ![p] = @ \ {w}]
    /\ \E v \in Values : tmpl' = [tmpl EXCEPT ![w] = v]
    /\ UNCHANGED <<clock, spec, last, edits>>

\* Updates that fail or are interrupted are not made up for.
GiveUp ==
    /\ grant' \in [Prs -> SUBSET Workloads]
    /\ \A p \in Prs : grant'[p] \subseteq grant[p]
    /\ UNCHANGED <<clock, spec, last, tmpl, edits>>

\* Changes of the cluster that concern no template count as edits as well.
OwnerEdits(w) ==
    /\ edits' = edits + 1
    /\ \E v \in Values : tmpl' = [tmpl EXCEPT ![w] = v]
    /\ UNCHANGED <<clock, spec, last, grant>>

Next ==
    \/ TimePasses
    \/ \E p \in Prs : Respecify(p) \/ Record(p) \/ \E w \in Workloads : Resize(p, w)
    \/ GiveUp
    \/ \E w \in Workloads : OwnerEdits(w)

Spec == Init /\ [][Next]_vars
=============================================================================
