--------------------------- MODULE TargetingProofs ---------------------------
(***************************************************************************)
(* Proofs that the two readings of a target, by discovery and by the       *)
(* filters of events, agree; that discovery misses no pod and invents      *)
(* none while the cluster changes; and that groups are workloads.          *)
(***************************************************************************)
EXTENDS TargetingHistory, TLAPS

\* What a target and a namespace selector may be.
Selectable == target \in TargetSpec /\ selected \subseteq Namespaces

LEMMA SelectableInvariant == Spec => []Selectable
<1> USE DEF cluster
<1>1. Init => Selectable
  BY TargetingAssumption DEF Init, Selectable
<1>2. Selectable /\ [Next]_vars => Selectable'
  <2> SUFFICES ASSUME Selectable, [Next]_vars
               PROVE  Selectable'
    OBVIOUS
  <2>1. ASSUME NEW ns \in Namespaces, Relabel(ns)
        PROVE  Selectable'
    BY <2>1 DEF Relabel, Selectable
  <2>2. ASSUME UNCHANGED <<target, selected>>
        PROVE  Selectable'
    BY <2>2 DEF Selectable
  <2> QED
    BY <2>1, <2>2 DEF Next, ListNamespaces, ListPods, ListFails, GroupPod, Done,
                      PodMoves, ReplicaSetMoves, vars
<1> QED
  BY <1>1, <1>2, PTL DEF Spec

\* The namespaces that discovery lists are those whose events are let through.
LEMMA NamespacesAgree ==
    ASSUME Selectable, Valid, ~Blanket, NEW p \in Pods,
           (ToList \ target.excludeNamespaces) \cap {None, Ns[p]} # {}
    PROVE  /\ target.namespace # None => Ns[p] = target.namespace
           /\ Ns[p] \notin target.excludeNamespaces
           /\ target.namespaceSelector => Ns[p] \in selected
<1>1. Ns[p] \in Namespaces /\ None \notin Namespaces
  BY TargetingAssumption
<1>2. CASE target.namespaceSelector
  BY <1>1, <1>2 DEF Selectable, ToList, Valid
<1>3. CASE ~target.namespaceSelector /\ target.namespace # None
  BY <1>1, <1>3 DEF Selectable, ToList, TargetSpec
<1>4. CASE ~target.namespaceSelector /\ target.namespace = None
  BY <1>4 DEF Blanket
<1> QED
  BY <1>2, <1>3, <1>4

\* Whatever an analysis would include wakes the resource when it changes
\* (podMatchesTarget, lines 923-978; workloadMatchesTarget, 981-1042).
THEOREM EventsAgreeWithDiscovery == Spec => []EventsFollowTargets
<1>1. Selectable => EventsFollowTargets
  <2> SUFFICES ASSUME Selectable, Valid, ~Blanket, NEW p \in Pods, Qualifies(p)
               PROVE  /\ PodMatches(p)
                      /\ WorkloadType(p) = "Deployment" => DeploymentMatches(Ns[p], p)
    BY DEF EventsFollowTargets
  <2>1. /\ target.namespace # None => Ns[p] = target.namespace
        /\ Ns[p] \notin target.excludeNamespaces
        /\ target.namespaceSelector => Ns[p] \in selected
    BY NamespacesAgree DEF Qualifies
  <2>2. Selects(p) /\ TypeAllowed(WorkloadType(p))
    BY DEF Qualifies, Includes
  <2> QED
    BY <2>1, <2>2 DEF PodMatches, DeploymentMatches
<1> QED
  BY <1>1, SelectableInvariant, PTL

-----------------------------------------------------------------------------
(* Discovery is complete and sound while the cluster changes.              *)

\* What is sought: a pod that qualified all along was found, or its namespace is
\* still to be listed.
Awaiting ==
    pc = "listing" =>
        \A p \in throughout : p \in found \/ \E ns \in todo : ns \in {None, Ns[p]}

\* What discovery does not touch decides what it includes.
LEMMA ClusterDecides ==
    ASSUME UNCHANGED <<target, cluster>>, NEW p
    PROVE  /\ Qualifies(p)' = Qualifies(p)
           /\ Selects(p)' = Selects(p) /\ Includes(p)' = Includes(p)
           /\ Key(p)' = Key(p) /\ WorkloadName(p)' = WorkloadName(p)
  BY DEF cluster, Qualifies, Selects, Includes, ToList, TypeAllowed, Key, WorkloadName, Leads

LEMMA NextAwaits ==
    ASSUME Awaiting, [NextSeen]_<<vars, seen>>
    PROVE  Awaiting'
<1> USE DEF cluster
<1>1. CASE ListNamespaces /\ NextSeen
  <2>1. throughout' = Qualifying' /\ todo' = (ToList \ target.excludeNamespaces)'
    BY <1>1 DEF ListNamespaces, NextSeen, ToList
  <2>2. \A p \in Qualifying' : \E ns \in todo' : ns \in {None, Ns[p]}
    BY <2>1 DEF Qualifying, Qualifies
  <2> QED
    BY <2>1, <2>2 DEF Awaiting
<1>2. ASSUME NEW ns \in Namespaces \cup {None}, ListPods(ns), NextSeen
      PROVE  Awaiting'
  <2>1. pc = "listing" /\ throughout' = throughout \cap Qualifying'
    BY <1>2 DEF ListPods, NextSeen
  <2>2. ASSUME NEW p \in throughout' PROVE p \in found' \/ \E n \in todo' : n \in {None, Ns[p]}
    <3>1. p \in throughout /\ p \in Pods /\ Qualifies(p)'
      BY <2>1, <2>2 DEF Qualifying
    <3>2. Selects(p) /\ Includes(p)
      BY <1>2, <3>1, ClusterDecides DEF ListPods, Qualifies
    <3>3. CASE p \in found
      BY <1>2, <3>3 DEF ListPods
    <3>4. CASE ns \in {None, Ns[p]}
      BY <1>2, <3>1, <3>2, <3>4 DEF ListPods
    <3>5. CASE p \notin found /\ ns \notin {None, Ns[p]}
      <4>1. PICK n \in todo : n \in {None, Ns[p]}
        BY <2>1, <3>1, <3>5 DEF Awaiting
      <4> QED
        BY <1>2, <3>5, <4>1 DEF ListPods
    <3> QED
      BY <3>3, <3>4, <3>5
  <2> QED
    BY <2>2 DEF Awaiting
<1>3. ASSUME UNCHANGED <<pc, todo, found>>, NextSeen \/ UNCHANGED seen
      PROVE  Awaiting'
  <2>1. pc = "listing" => throughout' \subseteq throughout
    BY <1>3 DEF NextSeen, seen
  <2> QED
    BY <1>3, <2>1 DEF Awaiting
<1>4. CASE ListFails \/ Done
  BY <1>4 DEF ListFails, Done, Awaiting
<1>5. CASE NextSeen
  BY <1>1, <1>2, <1>3, <1>4, <1>5
     DEF NextSeen, Next, GroupPod, PodMoves, Relabel, ReplicaSetMoves
<1>6. CASE UNCHANGED <<vars, seen>>
  BY <1>3, <1>6 DEF vars
<1> QED
  BY <1>5, <1>6

\* No pod is missed that was a target all along (discoverTargetPods, 229-296).
THEOREM NothingEverMissed == SpecSeen => []NothingMissed
<1>1. InitSeen => Awaiting
  BY DEF InitSeen, Init, Awaiting
<1>2. Awaiting /\ [NextSeen]_<<vars, seen>> => Awaiting'
  BY NextAwaits
<1>3. Awaiting => NothingMissed
  BY DEF Awaiting, NothingMissed
<1> QED
  BY <1>1, <1>2, <1>3, PTL DEF SpecSeen

\* What was found could be included, and what is still to be listed was to be.
Witnessed ==
    pc = "listing" =>
        /\ \A p \in found : p \in included /\ Ns[p] \in listed
        /\ \A ns \in todo : Namely(ns) \subseteq listed

LEMMA NextWitnessed ==
    ASSUME Witnessed, [NextSeen]_<<vars, seen>>
    PROVE  Witnessed'
<1> USE DEF cluster
<1>1. CASE ListNamespaces /\ NextSeen
  <2>1. listed' = Listing' /\ todo' = (ToList \ target.excludeNamespaces)' /\ found' = {}
    BY <1>1 DEF ListNamespaces, NextSeen, ToList
  <2>2. \A ns \in todo' : Namely(ns) \subseteq Listing'
    BY <2>1 DEF Listing, Namely
  <2> QED
    BY <2>1, <2>2 DEF Witnessed, Namely
<1>2. ASSUME NEW ns \in Namespaces \cup {None}, ListPods(ns), NextSeen
      PROVE  Witnessed'
  <2>1. /\ pc = "listing" /\ included' = included \cup Including' /\ listed \subseteq listed'
        /\ UNCHANGED <<target, cluster>> /\ todo' \subseteq todo /\ ns \in todo
    BY <1>2 DEF ListPods, NextSeen
  <2>2. ASSUME NEW p \in found' PROVE p \in included' /\ Ns[p] \in listed'
    <3>1. CASE p \in found
      BY <2>1, <3>1 DEF Witnessed
    <3>2. CASE p \in Pods /\ ns \in {None, Ns[p]} /\ Selects(p) /\ Includes(p)
      <4>1. p \in Including'
        BY <2>1, <3>2, ClusterDecides DEF Including
      <4>2. Ns[p] \in Namely(ns)
        BY <3>2, TargetingAssumption DEF Namely
      <4> QED
        BY <2>1, <4>1, <4>2 DEF Witnessed
    <3> QED
      BY <1>2, <2>2, <3>1, <3>2 DEF ListPods
  <2> QED
    BY <2>1, <2>2 DEF Witnessed, Namely
<1>3. ASSUME UNCHANGED <<pc, todo, found>>, NextSeen \/ UNCHANGED seen
      PROVE  Witnessed'
  <2>1. pc = "listing" => included \subseteq included' /\ listed \subseteq listed'
    BY <1>3 DEF NextSeen, seen
  <2> QED
    BY <1>3, <2>1 DEF Witnessed, Namely
<1>4. CASE ListFails \/ Done
  BY <1>4 DEF ListFails, Done, Witnessed
<1>5. CASE NextSeen
  BY <1>1, <1>2, <1>3, <1>4, <1>5
     DEF NextSeen, Next, GroupPod, PodMoves, Relabel, ReplicaSetMoves
<1>6. CASE UNCHANGED <<vars, seen>>
  BY <1>3, <1>6 DEF vars
<1> QED
  BY <1>5, <1>6

\* No pod is found that could not be included at some instant of the discovery, in
\* a namespace that was to be listed at some instant (lines 246-292).
THEOREM NothingEverInvented == SpecSeen => []NothingInvented
<1>1. InitSeen => Witnessed
  BY DEF InitSeen, Init, Witnessed
<1>2. Witnessed /\ [NextSeen]_<<vars, seen>> => Witnessed'
  BY NextWitnessed
<1>3. Witnessed => NothingInvented
  BY DEF Witnessed, NothingInvented
<1> QED
  BY <1>1, <1>2, <1>3, PTL DEF SpecSeen

-----------------------------------------------------------------------------
(* Groups are workloads.                                                   *)

\* As Kubernetes' controllers make pods: one owner at most, and no workload has
\* the name of a pod.
SingleOwners ==
    /\ \A p \in Pods : /\ DOMAIN Owners[p] \subseteq {1}
                       /\ \A i \in DOMAIN Owners[p] : Owners[p][i].name \notin Pods
    /\ \A r \in ReplicaSets : DeploymentOf[r] \notin Pods

\* What the name found for a pod says of it.
LEMMA NameFollowsOwner ==
    ASSUME SingleOwners, readable \subseteq ReplicaSets, NEW p \in Pods
    PROVE  \/ OwnedByReplicaSets(p) /\ WorkloadName(p) = p
           \/ /\ ControlledBy(p, Ns[p], WorkloadType(p), WorkloadName(p))
              /\ WorkloadName(p) \notin Pods
<1> DEFINE leading == {i \in DOMAIN Owners[p] : Leads(Owners[p][i])}
           known   == {i \in DOMAIN Owners[p] : Owners[p][i].kind \in DOMAIN TypeOf}
           owner   == Owners[p][1]
<1>1. Min({1}) = 1
  BY DEF Min
<1>2. CASE leading = {}
  BY <1>2 DEF WorkloadName, Leads, OwnedByReplicaSets
<1>3. CASE leading # {}
  <2>1. leading = {1} /\ 1 \in DOMAIN Owners[p] /\ Leads(owner) /\ owner.name \notin Pods
    BY <1>3 DEF SingleOwners
  <2>2. WorkloadName(p) = IF owner.kind = "ReplicaSet" THEN DeploymentOf[owner.name]
                          ELSE owner.name
    BY <1>1, <2>1 DEF WorkloadName
  <2>3. CASE owner.kind = "ReplicaSet"
    <3>1. known = {1} /\ TypeOf[owner.kind] = "Deployment"
      BY <2>1, <2>3 DEF SingleOwners, TypeOf
    <3>2. WorkloadType(p) = "Deployment"
      BY <1>1, <3>1 DEF WorkloadType
    <3>3. DeploymentOf[owner.name] \notin Pods
      BY <2>1, <2>3 DEF Leads, SingleOwners
    <3> QED
      BY <2>1, <2>2, <2>3, <3>2, <3>3 DEF ControlledBy
  <2>4. CASE owner.kind # "ReplicaSet"
    <3>1. known = IF owner.kind \in DOMAIN TypeOf THEN {1} ELSE {}
      BY <2>1 DEF SingleOwners
    <3>2. WorkloadType(p) = IF owner.kind \in DOMAIN TypeOf THEN TypeOf[owner.kind] ELSE "Pod"
      BY <1>1, <3>1 DEF WorkloadType
    <3> QED
      BY <2>1, <2>2, <2>4, <3>2 DEF ControlledBy
  <2> QED
    BY <2>3, <2>4
<1> QED
  BY <1>2, <1>3

\* The workload that controls a pod does not have the name of a pod.
LEMMA ControllerIsNoPod ==
    ASSUME SingleOwners, NEW p \in Pods, NEW ns, NEW type, NEW name,
           ControlledBy(p, ns, type, name),
           \A i \in DOMAIN Owners[p] : Owners[p][i].kind = "ReplicaSet"
                => Owners[p][i].name \in ReplicaSets
    PROVE  name \notin Pods
  BY DEF ControlledBy, SingleOwners

\* ReplicaSets that own pods are ReplicaSets.
KnownOwners ==
    \A p \in Pods : \A i \in DOMAIN Owners[p] :
        Owners[p][i].kind = "ReplicaSet" => Owners[p][i].name \in ReplicaSets

Grouped ==
    /\ readable \subseteq ReplicaSets
    /\ \A key \in DOMAIN groups : groups[key] \subseteq Pods
    /\ GroupsFollowOwners

LEMMA NextGrouped ==
    ASSUME SingleOwners, KnownOwners, Grouped, [Next]_vars
    PROVE  Grouped'
<1> USE DEF cluster
<1>1. ASSUME NEW p \in Pods, GroupPod(p) PROVE Grouped'
  <2> DEFINE own == Key(p)
  <2>1. /\ UNCHANGED readable /\ \A key \in DOMAIN groups : p \notin groups[key]
        /\ DOMAIN groups' = DOMAIN groups \cup {own}
        /\ \A key \in DOMAIN groups \ {own} : groups'[key] = groups[key]
        /\ groups'[own] = (IF own \in DOMAIN groups THEN groups[own] ELSE {}) \cup {p}
    BY <1>1 DEF GroupPod
  <2>2. \A q : WorkloadName(q)' = WorkloadName(q)
    BY <1>1 DEF GroupPod, WorkloadName, Leads
  <2>3. own[1] = Ns[p] /\ own[2] = WorkloadType(p) /\ own[3] = WorkloadName(p)
    BY DEF Key
  <2> HIDE DEF own
  <2>4. \A key \in DOMAIN groups' : groups'[key] \subseteq Pods
    BY <2>1 DEF Grouped
  \* A pod that stands alone under its own name stays alone.
  <2>5. ASSUME NEW q \in groups'[own], q # p
        PROVE  ControlledBy(q, own[1], own[2], own[3])
    <3>1. own \in DOMAIN groups /\ q \in groups[own] /\ q \in Pods
      BY <2>1, <2>5 DEF Grouped
    <3>2. own[3] # q
      BY <2>3, <2>5, <3>1, NameFollowsOwner DEF Grouped
    <3> QED
      BY <3>1, <3>2 DEF Grouped, GroupsFollowOwners
  <2>6. \/ ControlledBy(p, own[1], own[2], own[3])
        \/ groups'[own] = {p} /\ own[3] = p /\ OwnedByReplicaSets(p)
    <3>1. CASE WorkloadName(p) = p
      <4>1. ASSUME NEW q \in groups'[own], q # p PROVE FALSE
        <5>1. q \in Pods
          BY <2>1, <4>1 DEF Grouped
        <5>2. own[3] \notin Pods
          BY <2>5, <4>1, <5>1, ControllerIsNoPod DEF KnownOwners
        <5> QED
          BY <2>3, <3>1, <5>2
      <4> QED
        BY <2>1, <2>3, <3>1, <4>1, NameFollowsOwner DEF Grouped
    <3>2. CASE WorkloadName(p) # p
      BY <2>3, <3>2, NameFollowsOwner DEF Grouped
    <3> QED
      BY <3>1, <3>2
  <2>7. GroupsFollowOwners'
    <3> SUFFICES ASSUME NEW key \in DOMAIN groups', NEW q \in groups'[key]
                 PROVE  \/ ControlledBy(q, key[1], key[2], key[3])
                        \/ groups'[key] = {q} /\ key[3] = q /\ OwnedByReplicaSets(q)
      BY <2>2 DEF GroupsFollowOwners, ControlledBy
    <3>1. CASE key = own
      BY <2>5, <2>6, <3>1
    <3>2. CASE key # own
      BY <2>1, <3>2 DEF Grouped, GroupsFollowOwners
    <3> QED
      BY <3>1, <3>2
  <2> QED
    BY <2>1, <2>4, <2>7 DEF Grouped
<1>2. ASSUME NEW r \in ReplicaSets, ReplicaSetMoves(r) PROVE Grouped'
  <2>1. UNCHANGED groups /\ readable' \subseteq ReplicaSets
    BY <1>2 DEF ReplicaSetMoves, Grouped
  <2> QED
    BY <2>1 DEF Grouped, GroupsFollowOwners, ControlledBy
<1>3. CASE ListNamespaces
  BY <1>3 DEF ListNamespaces, NoGroups, Grouped, GroupsFollowOwners
<1>4. ASSUME UNCHANGED <<groups, readable>> PROVE Grouped'
  <2>1. \A q : WorkloadName(q)' = WorkloadName(q)
    BY <1>4 DEF WorkloadName, Leads
  <2>2. GroupsFollowOwners'
    BY <1>4, <2>1 DEF Grouped, GroupsFollowOwners, ControlledBy
  <2> QED
    BY <1>4, <2>2 DEF Grouped
<1> QED
  BY <1>1, <1>2, <1>3, <1>4
     DEF Next, ListPods, ListFails, Done, PodMoves, Relabel, vars

\* However ReplicaSets vanish and come back between two pods, a group holds pods of one workload,
\* or a single pod under its own name (groupPodsByWorkload, lines 367-402).
THEOREM GroupsAreWorkloads ==
    ASSUME SingleOwners, KnownOwners
    PROVE  Spec => []GroupsFollowOwners
<1>1. Init => Grouped
  BY DEF Init, NoGroups, Grouped, GroupsFollowOwners
<1>2. Grouped /\ [Next]_vars => Grouped'
  BY NextGrouped
<1>3. Grouped => GroupsFollowOwners
  BY DEF Grouped
<1> QED
  BY <1>1, <1>2, <1>3, PTL DEF Spec
=============================================================================
