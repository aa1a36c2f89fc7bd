------------------------------ MODULE MCTargeting ------------------------------
EXTENDS TargetingHistory, TLC

(* Namesakes in two namespaces and of three kinds, one of them unknown to   *)
(* the code, and a bare pod without resources.                              *)
Owner(k, n) == [kind |-> k, name |-> n]

MCOwners == [web1 |-> <<Owner("ReplicaSet", "web-a")>>,
             web2 |-> <<Owner("ReplicaSet", "web-b")>>,
             db   |-> <<Owner("StatefulSet", "web")>>,
             rep  |-> <<Owner("ReplicationController", "web")>>,
             bare |-> <<>>]
MCNs       == [p \in Pods |-> IF p = "web2" THEN "b" ELSE "a"]
MCLabelled == [p \in Pods |-> p # "db"]
MCSized    == [p \in Pods |-> p # "bare"]
MCDeploymentOf == ("web-a" :> "web") @@ ("web-b" :> "web")

MCTarget(ns, label, selector, exclude, types) ==
    [namespace |-> ns, labelSelector |-> label, namespaceSelector |-> selector,
     excludeNamespaces |-> exclude, includeWorkloadTypes |-> types]
MCTargets ==
    {MCTarget(None, FALSE, FALSE, {}, {}), MCTarget(None, TRUE, TRUE, {"b"}, {"Deployment"}),
     MCTarget("a", FALSE, FALSE, {}, {"StatefulSet"}), MCTarget(None, FALSE, TRUE, {}, {}),
     MCTarget("a", TRUE, FALSE, {"a"}, {}), MCTarget("b", FALSE, TRUE, {}, {})}
Except == {MCTarget(None, FALSE, FALSE, {"b"}, {})}
===============================================================================
