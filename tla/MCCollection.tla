----------------------------- MODULE MCCollection -----------------------------
EXTENDS Analyzers

\* Two pods of a Deployment, a namesake elsewhere, and the pod of a
\* ReplicationController, which counts as type Pod and is named by a label app that
\* the Deployment's pods carry as well.
Workload(ns, type, name) == [ns |-> ns, type |-> type, name |-> name]
Web == Workload("a", "Deployment", "web")

MCOwner == ("web-1" :> Web) @@ ("web-2" :> Web)
           @@ ("other" :> Workload("b", "Deployment", "web"))
           @@ ("rep" :> Workload("a", "Pod", "web"))
MCApp   == [p \in Pods |-> "web"]

Demand(c, m) == [requests |-> [cpu |-> c, memory |-> m]]
MCHas == ("web-1" :> <<Demand(40, 40)>>) @@ ("web-2" :> <<Demand(80, 75)>>)
         @@ ("other" :> <<Demand(Absent, 9)>>) @@ ("rep" :> <<Demand(80, 72), Demand(8, Absent)>>)

MCStartup == {{"web-1", "web-2", "rep"}, {"web-1", "other"}}

\* Shapes of usage over the eight steps.
Flat(x)       == [k \in 1..MaxClock |-> x]
Rising(x, d)  == [k \in 1..MaxClock |-> x + d * k]
Falling(x, d) == [k \in 1..MaxClock |-> x - d * k]
Stairs == <<20, 20, 20, 21, 21, 22, 22, 22>>
Spike  == <<20, 20, 20, 20, 100, 20, 4, 20>>
Peaks  == <<10, 10, 80, 10, 10, 80, 10, 10>>
Dips   == <<50, 50, 10, 50, 50, 10, 50, 50>>

Usage(web1, web2, other, rep, mock) ==
    ("web-1" :> web1) @@ ("web-2" :> web2) @@ ("other" :> other) @@ ("rep" :> rep)
    @@ [m \in MockPods |-> mock]
Of(c, m) == [cpu |-> c, memory |-> m]

MCUsages ==
    {Usage(Of(Flat(80), Peaks), Of(Rising(60, 4), Flat(70)), Of(Spike, Flat(9)),
           Of(Flat(50), Rising(20, 1)), Of(Flat(20), Flat(30))),
     Usage(Of(Rising(76, 1), Flat(70)), Of(Dips, Falling(60, 2)), Of(Falling(80, 5), Falling(40, 2)),
           Of(Falling(80, 9), Flat(0)), Of(Flat(8), Stairs))}

\* Nine samples as the mock client makes them of a base of 20 with variance 0.5:
\* half more or less, and one spike on top.
Burst    == <<20, 16, 24, 20, 50, 20, 24, 16, 20>>
MCBursts == {[p \in Measured |-> Of(Burst, Burst)]}

\* The default, the shortest that is admitted, one that is too short for that, and
\* one that is admitted but too long for Prometheus.
MCWindows == {Malformed, 1, 3, 9}

MCThresholds ==
    {[percentile |-> [r \in Resources |-> 0], min |-> [r \in Resources |-> 0],
      max |-> [r \in Resources |-> 0], margin |-> 0, change |-> 0]}
===============================================================================
