------------------------------ MODULE Targeting -------------------------------
(***************************************************************************)
(* How a PodRightSizing's target picks pods: discoverTargetPods lists the  *)
(* namespaces and then the pods of one namespace after the other, and      *)
(* groupPodsByWorkload asks for ReplicaSets, all while the cluster goes    *)
(* on changing; podMatchesTarget and workloadMatchesTarget decide anew, in *)
(* code of their own, whose events wake the resource.                      *)
(***************************************************************************)
EXTENDS Integers, Sequences, FiniteSetsExt

CONSTANTS
    Namespaces,
    Pods,           \* names of pods, each with what never changes of it:
    Ns,             \* Ns[p]: its namespace
    Owners,         \* Owners[p]: its owner references, [kind, name] each
    Labelled,       \* Labelled[p]: LabelSelector matches it
    Sized,          \* Sized[p]: some container has requests or limits
    ReplicaSets,    \* the ReplicaSets, names unique in the cluster
    DeploymentOf,   \* DeploymentOf[r]: the Deployment that owns r, or None
    Targets,        \* the targets users give
    None,
    MaxEdits        \* bound: changes of the cluster

TargetSpec == [namespace : Namespaces \cup {None}, labelSelector : BOOLEAN,
               namespaceSelector : BOOLEAN, excludeNamespaces : SUBSET Namespaces,
               includeWorkloadTypes :
                    SUBSET {"Deployment", "StatefulSet", "DaemonSet", "Job", "CronJob"}]

ASSUME TargetingAssumption ==
    /\ Ns \in [Pods -> Namespaces]
    /\ Labelled \in [Pods -> BOOLEAN] /\ Sized \in [Pods -> BOOLEAN]
    /\ Targets \subseteq TargetSpec
    /\ None \notin Namespaces
    /\ MaxEdits \in Nat

VARIABLES
    target,
    phase,          \* phase[p]: "absent", "Pending", "Running" or "Succeeded"
    selected,       \* the namespaces NamespaceSelector matches
    readable,       \* the ReplicaSets a Get finds
    pc,
    todo,           \* the namespaces still to be listed; None stands for all
    found,          \* the pods included so far
    groups,         \* groups: workload key -> pods
    edits

cluster == <<phase, selected, readable>>
vars    == <<target, phase, selected, readable, pc, todo, found, groups, edits>>

NoGroups == [key \in {} |-> {}]

Init ==
    /\ target \in Targets
    /\ phase \in [Pods -> {"absent", "Running"}]
    /\ selected \in SUBSET Namespaces
    /\ readable = ReplicaSets
    /\ pc = "idle" /\ todo = {} /\ found = {} /\ groups = NoGroups
    /\ edits = 0

-----------------------------------------------------------------------------
(* What the code decides about one pod.                                    *)

TypeOf == [ReplicaSet |-> "Deployment", StatefulSet |-> "StatefulSet",
           DaemonSet |-> "DaemonSet", Job |-> "Job", CronJob |-> "CronJob"]

\* getWorkloadType: by the first owner of a known kind.
WorkloadType(p) ==
    LET known == {i \in DOMAIN Owners[p] : Owners[p][i].kind \in DOMAIN TypeOf}
    IN  IF known = {} THEN "Pod" ELSE TypeOf[Owners[p][Min(known)].kind]

\* The Deployment of a ReplicaSet, when it can be read and has one.
Leads(owner) ==
    owner.kind = "ReplicaSet" =>
        owner.name \in readable /\ DeploymentOf[owner.name] # None

\* getWorkloadName: by the first owner that leads to a workload, else the pod.
WorkloadName(p) ==
    LET leading == {i \in DOMAIN Owners[p] : Leads(Owners[p][i])}
        owner   == Owners[p][Min(leading)]
    IN  IF leading = {} THEN p
        ELSE IF owner.kind = "ReplicaSet" THEN DeploymentOf[owner.name] ELSE owner.name

\* Mutant: namespaces are left out of the key.
KeyWithoutNamespace(p) == <<"", WorkloadType(p), WorkloadName(p)>>

Key(p) == <<Ns[p], WorkloadType(p), WorkloadName(p)>>

TypeAllowed(type) ==
    target.includeWorkloadTypes # {} => type \in target.includeWorkloadTypes

\* shouldIncludePod
Includes(p) ==
    /\ phase[p] = "Running"
    /\ Owners[p] # <<>>
    /\ TypeAllowed(WorkloadType(p))
    /\ Sized[p]

ToList ==
    IF target.namespaceSelector THEN selected
    ELSE IF target.namespace # None THEN {target.namespace} ELSE {None}

Selects(p) == target.labelSelector => Labelled[p]

\* Mutant: the kind of the owner is taken for the workload type.
PodMatchesByKind(p) ==
    /\ target.namespace # None => Ns[p] = target.namespace
    /\ Ns[p] \notin target.excludeNamespaces
    /\ Selects(p)
    /\ target.namespaceSelector => Ns[p] \in selected
    /\ \E i \in DOMAIN Owners[p] : TypeAllowed(Owners[p][i].kind)

\* podMatchesTarget: an event of p wakes the resource.
PodMatches(p) ==
    /\ target.namespace # None => Ns[p] = target.namespace
    /\ Ns[p] \notin target.excludeNamespaces
    /\ Selects(p)
    /\ target.namespaceSelector => Ns[p] \in selected
    /\ TypeAllowed(WorkloadType(p))

\* workloadMatchesTarget, for a Deployment in ns whose template has the labels
\* of p: a change of its template wakes the resource.
DeploymentMatches(ns, p) ==
    /\ target.namespace # None => ns = target.namespace
    /\ ns \notin target.excludeNamespaces
    /\ TypeAllowed("Deployment")
    /\ Selects(p)
    /\ target.namespaceSelector => ns \in selected

-----------------------------------------------------------------------------
(* Discovery and grouping, one step per answer of the API server.          *)

\* Mutant: the pods of the discovery before are kept.
ListNamespacesAnew ==
    /\ pc = "idle"
    /\ todo' = ToList \ target.excludeNamespaces
    /\ groups' = NoGroups
    /\ pc' = "listing"
    /\ UNCHANGED <<target, cluster, found, edits>>

ListNamespaces ==
    /\ pc = "idle"
    /\ todo' = ToList \ target.excludeNamespaces
    /\ found' = {} /\ groups' = NoGroups
    /\ pc' = "listing"
    /\ UNCHANGED <<target, cluster, edits>>

\* Mutant: the pods of the namespaces listed before are dropped.
ListPodsOver(ns) ==
    /\ pc = "listing" /\ ns \in todo
    /\ todo' = todo \ {ns}
    /\ found' = {p \in Pods : ns \in {None, Ns[p]} /\ Selects(p) /\ Includes(p)}
    /\ UNCHANGED <<target, cluster, pc, groups, edits>>

ListPods(ns) ==
    /\ pc = "listing" /\ ns \in todo
    /\ todo' = todo \ {ns}
    /\ found' = found \cup
                {p \in Pods : ns \in {None, Ns[p]} /\ Selects(p) /\ Includes(p)}
    /\ UNCHANGED <<target, cluster, pc, groups, edits>>

\* A list fails: the pods found so far are of no use.
ListFails ==
    /\ pc = "listing" /\ todo # {}
    /\ pc' = "idle" /\ todo' = {} /\ found' = {}
    /\ UNCHANGED <<target, cluster, groups, edits>>

\* groupPodsByWorkload, one pod after the other, each with ReplicaSets to read.
GroupPod(p) ==
    /\ pc = "listing" /\ todo = {}
    /\ p \in found /\ \A key \in DOMAIN groups : p \notin groups[key]
    /\ groups' = [key \in DOMAIN groups \cup {Key(p)} |->
                    (IF key \in DOMAIN groups THEN groups[key] ELSE {})
                    \cup (IF key = Key(p) THEN {p} ELSE {})]
    /\ UNCHANGED <<target, cluster, pc, todo, found, edits>>

Done ==
    /\ pc = "listing" /\ todo = {}
    /\ \A p \in found : \E key \in DOMAIN groups : p \in groups[key]
    /\ pc' = "idle"
    /\ UNCHANGED <<target, cluster, todo, found, groups, edits>>

-----------------------------------------------------------------------------
(* The cluster.                                                            *)

Edited == edits < MaxEdits /\ edits' = edits + 1

PodMoves(p) ==
    /\ \E next \in CASE phase[p] = "absent"    -> {"Pending"}
                     [] phase[p] = "Pending"   -> {"Running", "absent"}
                     [] phase[p] = "Running"   -> {"Succeeded", "absent"}
                     [] phase[p] = "Succeeded" -> {"absent"} :
         phase' = [phase EXCEPT ![p] = next]
    /\ Edited
    /\ UNCHANGED <<target, selected, readable, pc, todo, found, groups>>

Relabel(ns) ==
    /\ selected' = IF ns \in selected THEN selected \ {ns} ELSE selected \cup {ns}
    /\ Edited
    /\ UNCHANGED <<target, phase, readable, pc, todo, found, groups>>

\* r is deleted or not in the cache any more, or it reaches the cache (again).
ReplicaSetMoves(r) ==
    /\ readable' = IF r \in readable THEN readable \ {r} ELSE readable \cup {r}
    /\ Edited
    /\ UNCHANGED <<target, phase, selected, pc, todo, found, groups>>

Next ==
    \/ ListNamespaces \/ (\E ns \in Namespaces \cup {None} : ListPods(ns))
    \/ ListFails \/ (\E p \in Pods : GroupPod(p)) \/ Done
    \/ \E p \in Pods : PodMoves(p)
    \/ \E ns \in Namespaces : Relabel(ns)
    \/ \E r \in ReplicaSets : ReplicaSetMoves(r)

Spec == Init /\ [][Next]_vars

-----------------------------------------------------------------------------
(* Properties.                                                             *)

\* validateTarget: not both a namespace and a selector of namespaces.
Valid == target.namespace = None \/ ~target.namespaceSelector

\* All namespaces, but for some: discovery and events disagree on those.
Blanket == target.namespace = None /\ ~target.namespaceSelector
           /\ target.excludeNamespaces # {}

\* p is one of the pods an analysis made at this instant would include.
Qualifies(p) ==
    /\ (ToList \ target.excludeNamespaces) \cap {None, Ns[p]} # {}
    /\ Selects(p) /\ Includes(p)

\* Whatever an analysis would include wakes the resource when it changes: the
\* second reading of the target agrees with the first, for targets that
\* validateTarget accepts (podMatchesTarget, lines 923-978; workloadMatchesTarget,
\* 981-1042; discoverTargetPods, 229-296).
EventsFollowTargets ==
    Valid /\ ~Blanket =>
        \A p \in Pods : Qualifies(p) =>
            /\ PodMatches(p)
            /\ WorkloadType(p) = "Deployment" => DeploymentMatches(Ns[p], p)

\* The workload that controls p: its only owner, through the ReplicaSet if any.
\* Owners of kinds the code does not know all count as the type Pod.
ControlledBy(p, ns, type, name) ==
    /\ Ns[p] = ns
    /\ \E i \in DOMAIN Owners[p] :
         LET owner == Owners[p][i]
         IN  IF owner.kind = "ReplicaSet"
             THEN type = "Deployment" /\ name = DeploymentOf[owner.name]
             ELSE /\ type = IF owner.kind \in DOMAIN TypeOf THEN TypeOf[owner.kind] ELSE "Pod"
                  /\ name = owner.name

OwnedByReplicaSets(p) == \A i \in DOMAIN Owners[p] : Owners[p][i].kind = "ReplicaSet"

\* A group holds pods of one workload, or one pod under its own name, and that
\* only when it has no owner but ReplicaSets, which led nowhere at that moment:
\* namesakes of other kinds and namespaces stay apart, even if ReplicaSets vanish
\* and come back between two pods (groupPodsByWorkload and getWorkloadName, lines
\* 367-402).  Workloads of two unknown kinds and one name are not told apart.
GroupsFollowOwners ==
    \A key \in DOMAIN groups : \A p \in groups[key] :
        \/ ControlledBy(p, key[1], key[2], key[3])
        \/ groups[key] = {p} /\ key[3] = p /\ OwnedByReplicaSets(p)

\* "ExcludeNamespaces lists namespaces to exclude" (podrightsizing_types.go:64).
ExclusionsHold == \A p \in found : Ns[p] \notin target.excludeNamespaces
===============================================================================
