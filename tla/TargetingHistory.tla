---------------------------- MODULE TargetingHistory ---------------------------
(* Discovery with a record of what was true while it ran: the pods that    *)
(* qualified throughout, the pods that could be included at some instant,  *)
(* and the namespaces that were to be listed at some instant.              *)
EXTENDS Targeting

VARIABLES throughout, included, listed

seen == <<throughout, included, listed>>

Namely(ns) == IF ns = None THEN Namespaces ELSE {ns}

Qualifying == {p \in Pods : Qualifies(p)}
Including  == {p \in Pods : Selects(p) /\ Includes(p)}
Listing    == UNION {Namely(ns) : ns \in ToList \ target.excludeNamespaces}

InitSeen == Init /\ throughout = Qualifying /\ included = Including /\ listed = Listing

\* The record starts anew with each discovery.
NextSeen ==
    /\ Next
    /\ IF pc = "idle"
       THEN throughout' = Qualifying' /\ included' = Including' /\ listed' = Listing'
       ELSE /\ throughout' = throughout \cap Qualifying'
            /\ included' = included \cup Including'
            /\ listed' = listed \cup Listing'

SpecSeen == InitSeen /\ [][NextSeen]_<<vars, seen>>

\* No pod is missed that was a target all along, however the lists of the
\* namespaces interleave with changes elsewhere (discoverTargetPods, 229-296).
NothingMissed == pc = "listing" /\ todo = {} => throughout \subseteq found

\* No pod is found that was not includable, or not in a namespace to list, at
\* some instant of the discovery; the two instants may differ, since namespaces
\* are read before pods (lines 246-292).
NothingInvented ==
    pc = "listing" => \A p \in found : p \in included /\ Ns[p] \in listed
================================================================================
