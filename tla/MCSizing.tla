------------------------------- MODULE MCSizing -------------------------------
EXTENDS Sizing, TLC
CONSTANTS p1, p2

Both(x)      == [r \in Resources |-> x]
History(c, m) == [cpu |-> c, memory |-> m]
Flat         == <<500, 500, 500>>

\* Two similar loads, a larger one, a scattered one and one with a sample only.
MCHistories ==
    {History(<<100, 100, 110, 120>>, Flat), History(<<104, 108, 116, 120>>, Flat),
     History(<<200, 230, 300, 380>>, <<700, 900>>), History(<<1, 1, 9>>, Flat),
     History(<<100>>, Flat)}

Threshold(p, lo, hi, margin, change) ==
    [percentile |-> p, min |-> lo, max |-> hi, margin |-> margin, change |-> change]

\* The defaults; bounds that bite on either side, with a percentile beyond 100;
\* bounds of memory the wrong way round.
MCThresholds ==
    {Threshold(Both(0), Both(0), Both(0), 0, 0),
     Threshold([cpu |-> 50, memory |-> 100], Both(150), Both(0), 25, 20),
     Threshold([cpu |-> 90, memory |-> 150], Both(0), Both(200), 10, 5),
     Threshold(Both(80), [cpu |-> 0, memory |-> 300], Both(200), 0, 0)}

Of(requests, limits) == [requests |-> Both(requests), limits |-> Both(limits)]
MCStarts == {Of(100, 100), Of(1000, Absent), Of(Absent, 50)}
===============================================================================
