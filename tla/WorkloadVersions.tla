--------------------------- MODULE WorkloadVersions ----------------------------
(* The controller with the versions of the workloads counted: by how many   *)
(* changes of its template the informer's copy of a workload is behind, and *)
(* by how many the copy that a call of Reconcile read from the informer.    *)
(* The controller itself only carries a bit for each (see Reconciler).      *)
EXTENDS Reconciler

VARIABLES
    lag,        \* lag[w]: changes of w that the informer has not seen
    behind      \* behind[p]: changes of run[p].at that its copy does not have

seen == <<lag, behind>>

InitSeen ==
    /\ Init
    /\ lag = [w \in Workloads |-> 0]
    /\ behind = [p \in Prs |-> 0]

Changes(w) == IF tmpl'[w] # tmpl[w] THEN 1 ELSE 0

\* The informer catches up with the version there is; a call gets the version
\* that the informer had when the call read the workload.
NextSeen ==
    /\ Next
    /\ lag' = [w \in Workloads |->
                 IF ~wlFresh[w] /\ wlFresh'[w] THEN 0 ELSE lag[w] + Changes(w)]
    /\ behind' = [p \in Prs |->
                 CASE run'[p].at = None -> 0
                   [] run'[p].at # None /\ run[p].at = None -> lag[run'[p].at]
                   [] OTHER -> behind[p] + Changes(run[p].at)]

SpecSeen == InitSeen /\ [][NextSeen]_<<vars, seen>>

\* No update is lost: a template that changes without a user was at the very
\* version that the call which changed it had read from its cache, whoever else
\* wrote the workload, and however late the informer was
\* (Get, then Update of that copy: lines 684-700, 728-746).
UpdatesHoldNewest ==
    [][\A w \in Workloads : tmpl'[w] # tmpl[w] /\ edits' = edits =>
         \E p \in Prs : run[p].at = w /\ run'[p].at = None /\ behind[p] = 0]_<<vars, seen>>
================================================================================
