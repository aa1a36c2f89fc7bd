----------------------------- MODULE MCHotLoop ------------------------------
(* The controller with a record of when each resource last completed, to   *)
(* tell an analysis the schedule asked for from one it did not ask for.     *)
EXTENDS MCReconciler

VARIABLE completed      \* completed[p]: when phase Completed was last stored

InitSeen == Init /\ completed = [p \in Prs |-> Never]

NextSeen ==
    /\ Next
    /\ completed' = [p \in Prs |->
                        IF api[p].phase # "Completed" /\ api'[p].phase = "Completed"
                        THEN clock ELSE completed[p]]

SpecSeen == InitSeen /\ [][NextSeen]_<<vars, completed>>

\* A completed resource is analysed again when its schedule has fired since,
\* and not before: "Schedule defines when to run analysis"
\* (podrightsizing_types.go:44, Reconcile lines 113-119).
RunsOnSchedule ==
    [][\A p \in Prs : api[p].phase = "Completed" /\ api'[p].phase = "Analyzing" =>
         ShouldRun(api[p].spec.schedule, completed[p], clock)]_<<vars, completed>>
=============================================================================
