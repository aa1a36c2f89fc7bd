---------------------------- MODULE MCReconciler ----------------------------
EXTENDS Reconciler, TLC
CONSTANTS p1, p2, w1, w2, v1, v2

\* Minutes, hours and days are a few instants long.
Periodic == [hourly |-> {3, 7, 11}, often |-> {2, 4, 6, 8}, bad |-> {}, never |-> {}]
MCFires  == [s \in Schedules |-> Periodic[s]]

MCKind == [w \in Workloads |-> "Deployment"]

\* All resources select every workload.
Shared == [p \in Prs |-> Workloads]

MCSpec(dry, how, when) == [dryRun |-> dry, strategy |-> how, schedule |-> when]
Hourly   == {MCSpec(FALSE, "gradual", "hourly")}
Often    == {MCSpec(FALSE, "gradual", "often")}
OftenOrDry == Often \cup {MCSpec(TRUE, "gradual", "often")}
Mixed    == Hourly \cup {MCSpec(TRUE, "gradual", "never"), MCSpec(FALSE, "manual", "bad")}

\* The delaying queue releases a resource before anything else happens.
Overdue      == {p \in Prs : wake[p] \in 1..clock}
Punctual     == Overdue # {} => \E p \in Overdue : wake'[p] = NoWake
SpecPunctual == Init /\ [][Next /\ Punctual]_vars

Symmetric == Permutations(Workloads) \cup Permutations(Values)
=============================================================================
