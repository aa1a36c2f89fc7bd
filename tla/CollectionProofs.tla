--------------------------- MODULE CollectionProofs ---------------------------
(***************************************************************************)
(* Proofs about one analysis from inside, for any pods, usage, thresholds  *)
(* and windows: a recommendation rests on the samples of one pod over one  *)
(* range, none is lost, and the windows in force are long enough.  What    *)
(* carries the argument is that the past does not change: pods start and   *)
(* stop at the end of the record only.                                     *)
(***************************************************************************)
EXTENDS Collection, FiniteSetTheorems, TLAPS

\* Each client has its places in the loop, and each workload its turn.
Places == /\ pc \in {"cpu", "memory"} => source = "prometheus"
          /\ pc = "mock" => source = "mock"
          /\ pc \in {"cpu", "memory", "mock"} => at \notin todo /\ end[at] > 0
          /\ pc = "done" => todo = {}
          /\ \A w \in todo : recs[w] = {}

\* The answer that waits for the other one is what the query would give still.
CpuKnown == pc = "memory" => cpu = Query(at, "cpu", end[at])

\* The recommendations kept for w are sound.
KeptRight(w) ==
    source = "prometheus" =>
        \A rec \in recs[w] :
            /\ rec.pod \in Pods /\ Selects(w, rec.pod)
            /\ Recommendable(Known(rec.pod, w)) /\ rec = Fitting(rec.pod, w)

\* w has been analysed.
Analysed(w) ==
    end[w] > 0 /\ (source = "prometheus" =>
                     \A p \in groups[w] : Deserves(p, w) => Fitting(p, w) \in recs[w])

\* A workload with pods is to come, in work, failed or analysed.
Accounted ==
    pc # "idle" =>
        \A w \in Workloads :
            \/ groups[w] = {} \/ w \in todo \/ w \in failed
            \/ pc \in {"cpu", "memory", "mock"} /\ w = at
            \/ Analysed(w)

Inv == TypeOK /\ Places /\ CpuKnown /\ Accounted /\ \A w \in Workloads : KeptRight(w)

-----------------------------------------------------------------------------
(* The past does not change.                                               *)

\* What a step may do to the record of samples.
PastKept ==
    /\ UNCHANGED <<usage, t, window, source>>
    /\ clock' \in Nat /\ clock <= clock' /\ clock' <= MaxClock
    /\ \A p \in Pods : born'[p] = born[p] \/ (born[p] = Never /\ born'[p] = clock + 1)
    /\ \A p \in Pods : died'[p] = died[p] \/ (died[p] = Never /\ died'[p] = clock)

LEMMA StepsKeepPast ==
    ASSUME TypeOK, [Next]_vars
    PROVE  PastKept
<1>0. /\ clock \in Nat /\ clock <= MaxClock /\ MaxClock \in Nat
      /\ born \in [Pods -> Nat] /\ died \in [Pods -> Nat]
  BY CollectionAssumption DEF TypeOK
<1>1. ASSUME UNCHANGED <<clock, world, born, died>>
      PROVE  PastKept
  BY <1>0, <1>1 DEF PastKept, world
<1>2. CASE Tick
  BY <1>0, <1>2 DEF Tick, PastKept, world
<1>3. ASSUME NEW q \in Pods, PodStarts(q)
      PROVE  PastKept
  BY <1>0, <1>3 DEF PodStarts, PastKept, world
<1>4. ASSUME NEW q \in Pods, PodStops(q)
      PROVE  PastKept
  BY <1>0, <1>4 DEF PodStops, Runs, PastKept, world
<1> QED
  BY <1>1, <1>2, <1>3, <1>4
     DEF Next, Work, vars, Discover, Start, AnswerCpu, AnswerMemory, AnswerMock, Answered,
         QueryFails, End

LEMMA PastStays ==
    ASSUME TypeOK, [Next]_vars, NEW p \in Pods, NEW r \in Resources, NEW e \in 0..clock
    PROVE  Steps(p, r, e)' = Steps(p, r, e) /\ Series(p, r, e)' = Series(p, r, e)
<1>0. /\ clock \in Nat /\ clock <= MaxClock /\ MaxClock \in Nat
      /\ born[p] \in Nat /\ died[p] \in Nat
  BY CollectionAssumption DEF TypeOK
<1>1. /\ Window' = Window /\ usage' = usage
      /\ born'[p] = born[p] \/ (born[p] = Never /\ born'[p] = clock + 1)
      /\ died'[p] = died[p] \/ (died[p] = Never /\ died'[p] = clock)
  BY StepsKeepPast DEF PastKept, Window
<1>2. ASSUME NEW k \in 1..MaxClock, k <= e
      PROVE  /\ born[p] + 1 <= k <=> born'[p] + 1 <= k
             /\ born[p] <= k <=> born'[p] <= k
             /\ k <= died[p] <=> k <= died'[p]
  BY <1>0, <1>1, <1>2 DEF Never
<1>3. Steps(p, r, e)' = Steps(p, r, e)
  BY <1>1, <1>2 DEF Steps
<1> QED
  BY <1>1, <1>3 DEF Series

\* What is made of a workload's samples stays, as long as it is not queried again.
LEMMA KnownStays ==
    ASSUME TypeOK, [Next]_vars, NEW w \in Workloads, end'[w] = end[w], NEW p \in Pods
    PROVE  /\ Known(p, w)' = Known(p, w)
           /\ Fitting(p, w)' = Fitting(p, w)
           /\ Deserves(p, w)' <=> Deserves(p, w)
<1>1. end[w] \in 0..clock
  BY DEF TypeOK
<1>2. ASSUME NEW r \in Resources
      PROVE  Series(p, r, end[w])' = Series(p, r, end[w])
  BY <1>1, PastStays
<1>3. Known(p, w)' = Known(p, w)
  BY <1>2 DEF Known
<1>4. t' = t
  BY StepsKeepPast DEF PastKept
<1>5. Fitting(p, w)' = Fitting(p, w)
  BY <1>3, <1>4 DEF Fitting
<1>6. Worth(Fitting(p, w), p)' <=> Worth(Fitting(p, w), p)
  BY <1>4, <1>5 DEF Worth
<1> QED
  BY <1>3, <1>5, <1>6 DEF Deserves

\* What the second answer completes: for each pod the samples it is known by, and
\* no pod with samples is left out.
LEMMA AnswerKnown ==
    ASSUME Inv, pc = "memory", NEW m, m = Paired(Query(at, "memory", end[at]))
    PROVE  /\ DOMAIN m \subseteq Pods
           /\ \A p \in DOMAIN m : Selects(at, p)
           /\ \A p \in DOMAIN m : \A r \in Resources : m[p][r] = Known(p, at)[r]
           /\ \A p \in DOMAIN m : Recommendable(m[p]) <=> Recommendable(Known(p, at))
           /\ \A p \in DOMAIN m : Ordered(m[p]) = Ordered(Known(p, at))
           /\ \A p \in Pods : Selects(at, p) /\ Recommendable(Known(p, at)) => p \in DOMAIN m
           /\ \A p \in Pods : \A r \in Resources :
                 Selects(at, p) /\ Known(p, at)[r] # <<>> => p \in DOMAIN m
<1> DEFINE c   == Query(at, "cpu", end[at])
           mem == Query(at, "memory", end[at])
<1>1. cpu = c
  BY DEF Inv, CpuKnown
<1>2. ASSUME NEW r \in Resources
      PROVE  /\ DOMAIN Query(at, r, end[at]) =
                   {q \in Pods : Selects(at, q) /\ Steps(q, r, end[at]) # {}}
             /\ \A q \in DOMAIN Query(at, r, end[at]) :
                   Query(at, r, end[at])[q] = Series(q, r, end[at])
             /\ \A q \in Pods : Selects(at, q) /\ q \notin DOMAIN Query(at, r, end[at])
                   => Series(q, r, end[at]) = <<>>
  BY DEF Query, Series
<1>3. DOMAIN m = DOMAIN c \cup DOMAIN mem
  BY <1>1 DEF Paired
<1>4. DOMAIN m \subseteq Pods /\ \A p \in DOMAIN m : Selects(at, p)
  BY <1>2, <1>3 DEF Resources
<1>5. ASSUME NEW p \in DOMAIN m
      PROVE  \A r \in Resources : m[p][r] = Known(p, at)[r]
  <2>1. m[p] = [cpu    |-> IF p \in DOMAIN c THEN c[p] ELSE <<>>,
                memory |-> IF p \in DOMAIN mem THEN mem[p] ELSE <<>>]
    BY <1>1, <1>5 DEF Paired
  <2>2. p \in Pods /\ Selects(at, p)
    BY <1>4
  <2>3. m[p]["cpu"] = Series(p, "cpu", end[at])
    BY <1>2, <2>1, <2>2 DEF Resources
  <2>4. m[p]["memory"] = Series(p, "memory", end[at])
    BY <1>2, <2>1, <2>2 DEF Resources
  <2> QED
    BY <2>3, <2>4 DEF Known, Resources
<1>6. ASSUME NEW p \in DOMAIN m
      PROVE  /\ Recommendable(m[p]) <=> Recommendable(Known(p, at))
             /\ Ordered(m[p]) = Ordered(Known(p, at))
  BY <1>5 DEF Recommendable, Ordered
<1>7. ASSUME NEW p \in Pods, Selects(at, p), Recommendable(Known(p, at))
      PROVE  p \in DOMAIN m
  <2>1. Len(Known(p, at)["cpu"]) >= MinDataPoints
    BY <1>7 DEF Recommendable, Resources
  <2>2. Known(p, at)["cpu"] # <<>>
    BY <2>1, RecommendationAssumption
  <2>3. Series(p, "cpu", end[at]) # <<>>
    BY <2>2 DEF Known, Resources
  <2> QED
    BY <1>2, <1>3, <1>7, <2>3 DEF Resources
<1>8. ASSUME NEW p \in Pods, NEW r \in Resources, Selects(at, p), Known(p, at)[r] # <<>>
      PROVE  p \in DOMAIN m
  <2>1. p \in DOMAIN Query(at, r, end[at])
    BY <1>2, <1>8 DEF Known
  <2>2. r = "cpu" \/ r = "memory"
    BY DEF Resources
  <2> QED
    BY <1>3, <2>1, <2>2
<1> QED
  BY <1>4, <1>5, <1>6, <1>7, <1>8
-----------------------------------------------------------------------------
(* The invariant.                                                          *)

LEMMA InitInv == Init => Inv
<1> SUFFICES ASSUME Init PROVE Inv
  OBVIOUS
<1> USE DEF Init
<1>1. clock = Warmup /\ Warmup \in Nat \ {0} /\ MaxClock \in Nat /\ Warmup <= MaxClock
      /\ MaxEdits \in Nat
  BY CollectionAssumption
<1>2. at \in Workloads
  BY CollectionAssumption DEF Workloads
<1>3. born \in [Pods -> Nat] /\ \A p \in Pods : born[p] \in 1..clock + 1 \/ born[p] = Never
  <2>1. PICK up \in Startup : born = [p \in Pods |-> IF p \in up THEN 1 ELSE Never]
    OBVIOUS
  <2>2. Never \in Nat /\ 1 \in 1..clock + 1
    BY <1>1 DEF Never
  <2> QED
    BY <2>1, <2>2
<1>4. died \in [Pods -> Nat] /\ \A p \in Pods : died[p] = Never
  BY <1>1 DEF Never
<1>5. TypeOK
  <2>1. end \in [Workloads -> 0..clock] /\ clock \in Warmup..MaxClock /\ edits \in 0..MaxEdits
    BY <1>1
  <2>2. groups \in [Workloads -> SUBSET Pods] /\ todo \subseteq Workloads /\ failed \subseteq Workloads
    OBVIOUS
  <2>3. DOMAIN cpu \subseteq Pods /\ DOMAIN metrics \subseteq Measured
    BY DEF NoAnswer
  <2> QED
    BY <1>2, <1>3, <1>4, <2>1, <2>2, <2>3 DEF TypeOK
<1>6. \A w \in Workloads : recs[w] = {}
  OBVIOUS
<1>7. Places /\ CpuKnown /\ Accounted
  BY DEF Places, CpuKnown, Accounted
<1> QED
  BY <1>5, <1>6, <1>7 DEF Inv, KeptRight

\* The parts of the type invariant that the world's steps change.
LEMMA WorldTyped ==
    ASSUME TypeOK, [Next]_vars
    PROVE  /\ clock' \in Warmup..MaxClock
           /\ born' \in [Pods -> Nat] /\ died' \in [Pods -> Nat]
           /\ \A p \in Pods : born'[p] \in 1..clock' + 1 \/ born'[p] = Never
           /\ \A p \in Pods : died'[p] \in Warmup..clock' \/ died'[p] = Never
           /\ edits' \in 0..MaxEdits
<1>0. /\ clock \in Warmup..MaxClock /\ Warmup \in Nat /\ MaxClock \in Nat /\ MaxEdits \in Nat
      /\ edits \in 0..MaxEdits
      /\ born \in [Pods -> Nat] /\ died \in [Pods -> Nat]
      /\ \A p \in Pods : born[p] \in 1..clock + 1 \/ born[p] = Never
      /\ \A p \in Pods : died[p] \in Warmup..clock \/ died[p] = Never
  BY CollectionAssumption DEF TypeOK
<1>1. PastKept
  BY StepsKeepPast
<1>2. clock' \in Warmup..MaxClock
  BY <1>0, <1>1 DEF PastKept
<1>3. \A p \in Pods : born'[p] \in 1..clock' + 1 \/ born'[p] = Never
  BY <1>0, <1>1, <1>2 DEF PastKept
<1>4. \A p \in Pods : died'[p] \in Warmup..clock' \/ died'[p] = Never
  BY <1>0, <1>1, <1>2 DEF PastKept
<1>5. edits' \in 0..MaxEdits /\ born' \in [Pods -> Nat] /\ died' \in [Pods -> Nat]
  <2>1. ASSUME UNCHANGED <<born, died, edits>>
        PROVE  edits' \in 0..MaxEdits /\ born' \in [Pods -> Nat] /\ died' \in [Pods -> Nat]
    BY <1>0, <2>1
  <2>2. ASSUME NEW q \in Pods, PodStarts(q)
        PROVE  edits' \in 0..MaxEdits /\ born' \in [Pods -> Nat] /\ died' \in [Pods -> Nat]
    BY <1>0, <2>2 DEF PodStarts
  <2>3. ASSUME NEW q \in Pods, PodStops(q)
        PROVE  edits' \in 0..MaxEdits /\ born' \in [Pods -> Nat] /\ died' \in [Pods -> Nat]
    BY <1>0, <2>3 DEF PodStops
  <2> QED
    BY <2>1, <2>2, <2>3
       DEF Next, Work, vars, Discover, Start, AnswerCpu, AnswerMemory, AnswerMock, Answered,
           QueryFails, End, Tick
<1> QED
  BY <1>2, <1>3, <1>4, <1>5

\* A workload that a step does not concern.
LEMMA OthersStay ==
    ASSUME Inv, [Next]_vars, NEW w \in Workloads,
           end'[w] = end[w], recs'[w] = recs[w], groups'[w] = groups[w]
    PROVE  KeptRight(w)' /\ (Analysed(w) => Analysed(w)')
<1>0. TypeOK /\ groups[w] \subseteq Pods
  BY DEF Inv, TypeOK
<1>1. source' = source /\ t' = t
  BY <1>0, StepsKeepPast DEF PastKept
<1>2. ASSUME NEW p \in Pods
      PROVE  /\ Recommendable(Known(p, w))' <=> Recommendable(Known(p, w))
             /\ Fitting(p, w)' = Fitting(p, w)
             /\ Deserves(p, w)' <=> Deserves(p, w)
  BY <1>0, KnownStays DEF Recommendable
<1>3. KeptRight(w)'
  <2>1. KeptRight(w)
    BY DEF Inv
  <2> QED
    BY <1>0, <1>1, <1>2, <2>1 DEF KeptRight, Selects
<1>4. Analysed(w) => Analysed(w)'
  BY <1>0, <1>1, <1>2 DEF Analysed
<1> QED
  BY <1>3, <1>4

\* The answer to a query in the past is the same after a step.
LEMMA QueryStays ==
    ASSUME TypeOK, [Next]_vars, at' = at, end' = end, NEW r \in Resources
    PROVE  Query(at, r, end[at])' = Query(at, r, end[at])
<1>1. end[at] \in 0..clock
  BY DEF TypeOK
<1>2. \A p \in Pods : Steps(p, r, end[at])' = Steps(p, r, end[at])
                     /\ Series(p, r, end[at])' = Series(p, r, end[at])
  BY <1>1, PastStays
<1> QED
  BY <1>2 DEF Query

LEMMA QuietInv ==
    ASSUME Inv, [Next]_vars, UNCHANGED loop
    PROVE  Inv'
<1>0. TypeOK
  BY DEF Inv
<1>1. UNCHANGED <<pc, todo, groups, at, end, cpu, metrics, recs, failed>>
  BY DEF loop
<1>2. UNCHANGED <<usage, t, window, source>> /\ clock \in Nat /\ clock' \in Nat /\ clock <= clock'
  BY <1>0, StepsKeepPast, CollectionAssumption DEF PastKept, TypeOK
<1>3. TypeOK'
  <2>1. end' \in [Workloads -> 0..clock']
    BY <1>0, <1>1, <1>2 DEF TypeOK
  <2> QED
    BY <1>0, <1>1, <1>2, <2>1, WorldTyped DEF TypeOK
<1>4. CpuKnown'
  BY <1>0, <1>1, QueryStays DEF Inv, CpuKnown, Resources
<1>5. \A w \in Workloads : KeptRight(w)' /\ (Analysed(w) => Analysed(w)')
  BY <1>1, OthersStay
<1>6. Places' /\ Accounted'
  BY <1>1, <1>2, <1>5 DEF Inv, Places, Accounted
<1> QED
  BY <1>3, <1>4, <1>5, <1>6 DEF Inv

LEMMA DiscoverInv ==
    ASSUME Inv, Discover
    PROVE  Inv'
<1>0. TypeOK /\ [Next]_vars
  BY DEF Inv, Next
<1>1. /\ UNCHANGED <<clock, at, cpu, source>>
      /\ groups' = [w \in Workloads |-> {p \in Pods : Runs(p) /\ Owner[p] = w}]
      /\ todo' = {Owner[p] : p \in {q \in Pods : Runs(q)}}
      /\ recs' = [w \in Workloads |-> {}] /\ end' = [w \in Workloads |-> 0]
      /\ failed' = {} /\ metrics' = NoAnswer /\ pc' = "next"
  BY DEF Discover, world
<1>2. TypeOK'
  <2>1. todo' \subseteq Workloads /\ groups' \in [Workloads -> SUBSET Pods]
    BY <1>1 DEF Workloads
  <2>2. end' \in [Workloads -> 0..clock'] /\ DOMAIN metrics' \subseteq Measured
    BY <1>0, <1>1, CollectionAssumption DEF TypeOK, NoAnswer
  <2> QED
    BY <1>0, <1>1, <2>1, <2>2, WorldTyped, StepsKeepPast DEF TypeOK, PastKept
<1>3. \A w \in Workloads : KeptRight(w)'
  BY <1>1 DEF KeptRight
<1>4. Accounted'
  BY <1>1 DEF Accounted
<1>5. Places' /\ CpuKnown'
  BY <1>1, <1>2 DEF Places, CpuKnown, TypeOK
<1> QED
  BY <1>2, <1>3, <1>4, <1>5 DEF Inv

LEMMA StartInv ==
    ASSUME Inv, NEW v \in Workloads, Start(v)
    PROVE  Inv'
<1>0. TypeOK /\ [Next]_vars
  BY DEF Inv, Next, Work
<1>1. /\ UNCHANGED <<clock, groups, cpu, recs, failed, source>>
      /\ pc = "next" /\ v \in todo /\ todo' = todo \ {v}
      /\ at' = v /\ end' = [end EXCEPT ![v] = clock] /\ metrics' = NoAnswer
      /\ pc' = IF source = "mock" THEN "mock" ELSE "cpu"
  BY DEF Start, world
<1>2. clock \in Nat /\ clock > 0
  BY <1>0, CollectionAssumption DEF TypeOK
<1>3. TypeOK'
  <2>1. end' \in [Workloads -> 0..clock'] /\ DOMAIN metrics' \subseteq Measured
    BY <1>0, <1>1, <1>2 DEF TypeOK, NoAnswer
  <2> QED
    BY <1>0, <1>1, <2>1, WorldTyped, StepsKeepPast DEF TypeOK, PastKept
<1>4. \A w \in Workloads \ {v} : KeptRight(w)' /\ (Analysed(w) => Analysed(w)')
  BY <1>0, <1>1, OthersStay DEF TypeOK
<1>5. KeptRight(v)'
  BY <1>1 DEF Inv, Places, KeptRight
<1>6. Accounted'
  BY <1>0, <1>1, <1>4 DEF Inv, Accounted, TypeOK
<1>7. Places' /\ CpuKnown'
  BY <1>0, <1>1, <1>2 DEF Inv, Places, CpuKnown, TypeOK
<1> QED
  BY <1>3, <1>4, <1>5, <1>6, <1>7 DEF Inv

\* The steps of the loop that keep no recommendation.
LEMMA RestInv ==
    ASSUME Inv, AnswerCpu \/ QueryFails \/ End
    PROVE  Inv'
<1>0. TypeOK /\ [Next]_vars
  BY DEF Inv, Next, Work
<1>1. /\ UNCHANGED <<clock, source, todo, groups, at, end, metrics, recs>>
      /\ failed' \in {failed, failed \cup {at}} /\ failed \subseteq failed'
      /\ pc' \in {"memory", "next", "done"} /\ pc # "idle"
  BY DEF AnswerCpu, QueryFails, End, world
<1>2. DOMAIN cpu' \subseteq Pods
  BY <1>0 DEF AnswerCpu, QueryFails, End, TypeOK, NoAnswer, Query
<1>3. TypeOK'
  BY <1>0, <1>1, <1>2, WorldTyped, StepsKeepPast DEF TypeOK, PastKept
<1>4. \A w \in Workloads : KeptRight(w)' /\ (Analysed(w) => Analysed(w)')
  BY <1>0, <1>1, OthersStay
<1>5. CpuKnown'
  BY <1>0, <1>1, QueryStays DEF AnswerCpu, QueryFails, End, CpuKnown, Resources
<1>6. Places'
  BY <1>1 DEF AnswerCpu, QueryFails, End, Inv, Places
<1>7. Accounted'
  <2>1. ASSUME NEW w \in Workloads, groups[w] # {}, w \notin todo, w \notin failed'
        PROVE  (pc' = "memory" /\ w = at) \/ Analysed(w)'
    <3>1. (w = at /\ pc \in {"cpu", "memory", "mock"}) \/ Analysed(w)
      BY <1>1, <2>1 DEF Inv, Accounted
    <3> QED
      BY <1>1, <1>4, <2>1, <3>1 DEF AnswerCpu, QueryFails, End
  <2> QED
    BY <1>1, <2>1 DEF Accounted
<1> QED
  BY <1>3, <1>4, <1>5, <1>6, <1>7 DEF Inv

\* The step that keeps recommendations for the workload in work, from metrics m.
LEMMA AnsweredInv ==
    ASSUME Inv, [Next]_vars, pc \in {"memory", "mock"}, NEW m, DOMAIN m \subseteq Measured,
           Answered(m),
           source = "prometheus" =>
             /\ \A p \in DOMAIN m : p \in Pods /\ Selects(at, p)
             /\ \A p \in DOMAIN m : Recommendable(m[p]) <=> Recommendable(Known(p, at))
             /\ \A p \in DOMAIN m : Ordered(m[p]) = Ordered(Known(p, at))
             /\ \A p \in Pods : Selects(at, p) /\ Recommendable(Known(p, at))
                               => p \in DOMAIN m
    PROVE  Inv'
<1>0. TypeOK /\ at \in Workloads /\ groups[at] \subseteq Pods
  BY DEF Inv, TypeOK
<1>1. PICK pick \in [Advised(m) -> groups[at]] :
        /\ \A rec \in Advised(m) : pick[rec] \in Comparable(rec, at)
        /\ recs' = [recs EXCEPT ![at] = {rec \in Advised(m) : Worth(rec, pick[rec])}]
  BY DEF Answered
<1>2. /\ UNCHANGED <<clock, source, t, todo, groups, at, end, failed>>
      /\ metrics' = m /\ cpu' = NoAnswer /\ pc' = "next"
  BY DEF Answered, world
<1>3. recs'[at] = {rec \in Advised(m) : Worth(rec, pick[rec])}
      /\ \A w \in Workloads \ {at} : recs'[w] = recs[w]
  BY <1>0, <1>1 DEF TypeOK
<1>4. \A rec \in Advised(m) : rec.pod \in DOMAIN m
  BY DEF Advised
<1>5. TypeOK'
  <2>1. recs' = [w \in Workloads |-> recs'[w]]
    BY <1>0, <1>1 DEF TypeOK
  <2>2. \A w \in Workloads : \A rec \in recs'[w] : rec.pod \in Measured
    BY <1>0, <1>3, <1>4 DEF TypeOK
  <2>3. DOMAIN cpu' \subseteq Pods
    BY <1>2 DEF NoAnswer
  <2> QED
    BY <1>0, <1>2, <2>1, <2>2, <2>3, WorldTyped, StepsKeepPast DEF TypeOK, PastKept
<1>6. \A w \in Workloads \ {at} : KeptRight(w)' /\ (Analysed(w) => Analysed(w)')
  BY <1>2, <1>3, OthersStay
<1>7. \A p \in Pods : /\ Known(p, at)' = Known(p, at)
                      /\ Fitting(p, at)' = Fitting(p, at)
                      /\ Deserves(p, at)' <=> Deserves(p, at)
  BY <1>0, <1>2, KnownStays
<1>8. source = "prometheus" =>
        \A rec \in Advised(m) : rec = Fitting(rec.pod, at) /\ Recommendable(Known(rec.pod, at))
  BY DEF Advised, Fitting
<1>9. KeptRight(at)'
  <2>1. ASSUME source = "prometheus", NEW rec \in recs'[at]
        PROVE  /\ rec.pod \in Pods /\ Selects(at, rec.pod)
               /\ Recommendable(Known(rec.pod, at))' /\ rec = Fitting(rec.pod, at)'
    <3>1. rec \in Advised(m) /\ rec.pod \in DOMAIN m
      BY <1>3, <1>4, <2>1
    <3> QED
      BY <1>7, <1>8, <2>1, <3>1 DEF Recommendable
  <2> QED
    BY <1>2, <2>1 DEF KeptRight, Selects
<1>10. Analysed(at)'
  <2>1. end'[at] > 0
    BY <1>2 DEF Inv, Places
  <2>2. ASSUME source = "prometheus", NEW p \in groups[at], Deserves(p, at)
        PROVE  Fitting(p, at) \in recs'[at]
    <3>1. p \in Pods /\ Selects(at, p) /\ Recommendable(Known(p, at))
          /\ Worth(Fitting(p, at), p)
      BY <1>0, <2>2 DEF Deserves
    <3>2. p \in DOMAIN m /\ Recommendable(m[p]) /\ Ordered(m[p]) = Ordered(Known(p, at))
      BY <2>2, <3>1
    <3>3. Fitting(p, at) \in Advised(m) /\ Fitting(p, at).pod = p
      BY <3>2 DEF Advised, Fitting
    <3>4. pick[Fitting(p, at)] = p
      BY <1>1, <2>2, <3>3 DEF Comparable
    <3> QED
      BY <1>3, <3>1, <3>3, <3>4
  <2> QED
    BY <1>0, <1>2, <1>7, <2>1, <2>2 DEF Analysed
<1>11. Accounted'
  BY <1>2, <1>6, <1>10 DEF Inv, Accounted
<1>12. Places'
  BY <1>2, <1>3 DEF Inv, Places, TypeOK
<1>13. CpuKnown'
  BY <1>2 DEF CpuKnown
<1>14. \A w \in Workloads : KeptRight(w)'
  BY <1>2, <1>6, <1>9
<1> QED
  BY <1>5, <1>11, <1>12, <1>13, <1>14 DEF Inv

LEMMA InvInductive == Inv /\ [Next]_vars => Inv'
<1> SUFFICES ASSUME Inv, [Next]_vars PROVE Inv'
  OBVIOUS
<1>1. CASE Discover
  BY <1>1, DiscoverInv
<1>2. ASSUME NEW w \in Workloads, Start(w) PROVE Inv'
  BY <1>2, StartInv
<1>3. CASE AnswerCpu \/ QueryFails \/ End
  BY <1>3, RestInv
<1>4. CASE AnswerMemory
  <2> DEFINE m == Paired(Query(at, "memory", end[at]))
  <2>1. pc = "memory" /\ Answered(m)
    BY <1>4 DEF AnswerMemory
  <2>2. source = "prometheus"
    BY <2>1 DEF Inv, Places
  <2> HIDE DEF m
  <2>3. m = Paired(Query(at, "memory", end[at]))
    BY DEF m
  <2> QED
    BY <2>1, <2>3, AnswerKnown, AnsweredInv DEF Measured
<1>5. CASE AnswerMock
  <2>1. pc = "mock" /\ source = "mock" /\ Answered(Mocked)
    BY <1>5 DEF AnswerMock, Inv, Places
  <2>2. DOMAIN Mocked \subseteq Measured
    BY DEF Mocked, Measured
  <2> QED
    BY <2>1, <2>2, AnsweredInv
<1>6. ASSUME UNCHANGED loop PROVE Inv'
  BY <1>6, QuietInv
<1> QED
  BY <1>1, <1>2, <1>3, <1>4, <1>5, <1>6 DEF Next, Work, vars, Tick, PodStarts, PodStops

LEMMA InvAlways == Spec => []Inv
<1> QED
  BY InitInv, InvInductive, PTL DEF Spec

-----------------------------------------------------------------------------
(* What follows.                                                           *)

\* Every variable keeps its type: in particular no range ends in the future and
\* recommendations are for pods that were measured (Reconcile, lines 100-148).
THEOREM TypeCorrect == Spec => []TypeOK
<1>1. Inv => TypeOK
  BY DEF Inv
<1> QED
  BY <1>1, InvAlways, PTL

\* A recommendation made from Prometheus's answers rests on the samples of one pod
\* over one range, and that pod is one of the workload's, if the workload is of a
\* type with a label of its own (GetWorkloadMetrics, lines 96-197).
THEOREM SamplesAlwaysBelongTogether == Spec => []SamplesBelongTogether
<1>1. ASSUME Inv PROVE SamplesBelongTogether
  <2>1. ASSUME source = "prometheus", NEW w \in Workloads, NEW rec \in recs[w]
        PROVE  /\ Selects(w, rec.pod)
               /\ Recommendable(Known(rec.pod, w)) /\ rec = Fitting(rec.pod, w)
               /\ w.type \in QueryTypes => Owner[rec.pod] = w
    <3>1. rec.pod \in Pods /\ Selects(w, rec.pod)
          /\ Recommendable(Known(rec.pod, w)) /\ rec = Fitting(rec.pod, w)
      BY <1>1, <2>1 DEF Inv, KeptRight
    <3>2. PICK q \in Pods : w = Owner[q]
      BY DEF Workloads
    <3>3. w.type \in QueryTypes => Owner[rec.pod] = w
      BY <3>1, <3>2, CollectionAssumption DEF Selects
    <3> QED
      BY <3>1, <3>3
  <2> QED
    BY <2>1 DEF SamplesBelongTogether
<1> QED
  BY <1>1, InvAlways, PTL

\* At the end of an analysis every workload that did not fail was queried, and
\* every pod that deserves a recommendation has it (Reconcile, lines 127-148;
\* GenerateRecommendations, lines 55-71).
THEOREM NothingEverLost == Spec => []NothingLost
<1>1. Inv => NothingLost
  BY DEF Inv, Places, Accounted, Analysed, NothingLost
<1> QED
  BY <1>1, InvAlways, PTL

-----------------------------------------------------------------------------
(* The length of the answers.                                              *)

\* What the client returned for the workload analysed last, and that nothing is
\* missing in it.
MetricsKnown ==
    pc = "next" /\ end[at] > 0 /\ at \notin failed =>
        IF source = "mock" THEN metrics = Mocked
        ELSE /\ DOMAIN metrics \subseteq Pods
             /\ \A p \in DOMAIN metrics : \A r \in Resources : metrics[p][r] = Known(p, at)[r]
             /\ \A p \in Pods : \A r \in Resources :
                   Selects(at, p) /\ Known(p, at)[r] # <<>> => p \in DOMAIN metrics

LEMMA MetricsKnownAlways == Spec => []MetricsKnown
<1>1. Init => MetricsKnown
  BY DEF Init, MetricsKnown
<1>2. Inv /\ MetricsKnown /\ [Next]_vars => MetricsKnown'
  <2> SUFFICES ASSUME Inv, MetricsKnown, [Next]_vars PROVE MetricsKnown'
    OBVIOUS
  <2>0. TypeOK /\ at \in Workloads /\ source' = source /\ Mocked' = Mocked
    <3>1. TypeOK /\ at \in Workloads
      BY DEF Inv, TypeOK
    <3>2. source' = source /\ window' = window /\ usage' = usage
      BY <3>1, StepsKeepPast DEF PastKept
    <3> QED
      BY <3>1, <3>2 DEF Mocked, MockSteps, Window
  <2>1. ASSUME at' = at, end' = end
        PROVE  \A p \in Pods : /\ Known(p, at)' = Known(p, at)
                               /\ Selects(at, p)' <=> Selects(at, p)
    BY <2>0, <2>1, KnownStays DEF Selects
  <2>2. CASE Discover
    BY <2>0, <2>2 DEF Discover, MetricsKnown
  <2>3. ASSUME NEW w \in Workloads, Start(w) PROVE MetricsKnown'
    BY <2>3 DEF Start, MetricsKnown
  <2>4. CASE AnswerCpu \/ QueryFails \/ End
    BY <2>4 DEF AnswerCpu, QueryFails, End, MetricsKnown
  <2>5. CASE AnswerMemory
    <3> DEFINE m == Paired(Query(at, "memory", end[at]))
    <3>1. pc = "memory" /\ metrics' = m /\ at' = at /\ end' = end /\ source = "prometheus"
      BY <2>5 DEF AnswerMemory, Answered, Inv, Places
    <3> HIDE DEF m
    <3>2. /\ DOMAIN m \subseteq Pods
          /\ \A p \in DOMAIN m : \A r \in Resources : m[p][r] = Known(p, at)[r]
          /\ \A p \in Pods : \A r \in Resources :
                Selects(at, p) /\ Known(p, at)[r] # <<>> => p \in DOMAIN m
      BY <3>1, AnswerKnown DEF m
    <3> QED
      BY <2>0, <2>1, <3>1, <3>2 DEF MetricsKnown
  <2>6. CASE AnswerMock
    <3>1. metrics' = Mocked /\ source = "mock"
      BY <2>6 DEF AnswerMock, Answered, Inv, Places
    <3> QED
      BY <2>0, <3>1 DEF MetricsKnown
  <2>7. ASSUME UNCHANGED loop PROVE MetricsKnown'
    <3>1. UNCHANGED <<pc, at, end, metrics, failed>>
      BY <2>7 DEF loop
    <3> QED
      BY <2>0, <2>1, <3>1 DEF MetricsKnown
  <2> QED
    BY <2>2, <2>3, <2>4, <2>5, <2>6, <2>7 DEF Next, Work, vars, Tick, PodStarts, PodStops
<1> QED
  BY <1>1, <1>2, InvAlways, PTL DEF Spec

\* The series of a pod that ran all the time has a sample for each step of the
\* window, and one more of memory.
LEMMA SeriesLength ==
    ASSUME TypeOK, NEW p \in Pods, NEW r \in Resources, NEW e \in 0..clock,
           Window \in Nat \ {0}, born[p] + Window <= e, e <= died[p]
    PROVE  Len(Series(p, r, e)) \in Nat /\ Len(Series(p, r, e)) >= Window
<1> DEFINE first == IF r = "cpu" THEN born[p] + 1 ELSE born[p]
           lo == IF e - Window < first THEN first ELSE e - Window
           s == usage[p][r]
<1>1. /\ born[p] \in Nat /\ died[p] \in Nat /\ clock \in Nat /\ MaxClock \in Nat
      /\ clock <= MaxClock /\ e \in Nat /\ e <= MaxClock /\ Never = MaxClock + 2
      /\ born[p] \in 1..clock + 1 \/ born[p] = Never
  <2>1. clock \in Warmup..MaxClock /\ Warmup \in Nat /\ MaxClock \in Nat
    BY CollectionAssumption DEF TypeOK
  <2>2. born[p] \in Nat /\ died[p] \in Nat /\ (born[p] \in 1..clock + 1 \/ born[p] = Never)
    BY DEF TypeOK
  <2> QED
    BY <2>1, <2>2 DEF Never
<1>2. born[p] >= 1
  BY <1>1
<1>3. lo \in Nat /\ 1 <= lo /\ lo <= e /\ e - lo + 1 >= Window /\ first <= lo /\ e - Window <= lo
  BY <1>1, <1>2
<1>4. Steps(p, r, e) = lo..e
  BY <1>1, <1>2, <1>3 DEF Steps
<1> HIDE DEF lo
<1>5. Cardinality(lo..e) = e - lo + 1
  BY <1>1, <1>3, FS_Interval
<1>6. (CHOOSE k \in lo..e : \A l \in lo..e : k <= l) = lo
  BY <1>1, <1>3
<1>7. s \in Seq(Nat) /\ Len(s) = MaxClock
  <2>1. s \in [1..MaxClock -> Nat]
    <3>1. usage \in [Measured -> [Resources -> [1..MaxClock -> Nat]]]
      BY CollectionAssumption DEF TypeOK
    <3> QED
      BY <3>1 DEF Measured
  <2> HIDE DEF s
  <2> QED
    BY <1>1, <2>1
<1>8. Series(p, r, e) = SubSeq(s, lo, e)
  <2>1. lo..e # {} /\ lo + (e - lo + 1) - 1 = e
    BY <1>1, <1>3
  <2> QED
    BY <1>4, <1>5, <1>6, <2>1 DEF Series
<1> HIDE DEF s
<1>9. Len(SubSeq(s, lo, e)) = e - lo + 1
  BY <1>1, <1>3, <1>7
<1> QED
  BY <1>1, <1>3, <1>8, <1>9

\* Where the engine's minimum of data points fits into the shortest window that is
\* admitted and into the default one, no pod with samples for the whole window in
\* force is missing from the answer or has fewer.  With Prometheus this is about the
\* windows it answers at all (validateAnalysisWindow, podrightsizing_webhook.go:
\* 180-207; generateWorkloadRecommendations, lines 422-427; MinDataPoints,
\* recommendation_engine.go:34).
THEOREM WindowsSuffice ==
    ASSUME MinDataPoints <= Hour, MinDataPoints <= DefaultWindow, MinDataPoints <= MaxClock
    PROVE  Spec => []WindowSuffices
<1>1. Inv /\ MetricsKnown => WindowSuffices
  <2> SUFFICES ASSUME Inv, MetricsKnown, pc = "next", end[at] > 0, at \notin failed,
                      ValidWindow \/ window = Malformed, NEW p \in Filling, NEW r \in Resources
               PROVE  p \in DOMAIN metrics /\ Len(metrics[p][r]) >= MinDataPoints
    <3>1. Resources # {}
      BY DEF Resources
    <3> QED
      BY <3>1 DEF WindowSuffices
  <2>0. /\ TypeOK /\ end[at] \in 0..clock /\ MinDataPoints \in Nat \ {0} /\ MaxClock \in Nat
        /\ source \in {"prometheus", "mock"}
    BY RecommendationAssumption, CollectionAssumption DEF Inv, TypeOK
  <2>1. Window \in Nat \ {0} /\ Window >= MinDataPoints
    <3>1. window \in Nat \cup {Unset, Malformed} /\ DefaultWindow \in Nat /\ Hour \in Nat
      BY <2>0, CollectionAssumption DEF TypeOK
    <3> QED
      BY <2>0, <3>1 DEF Window, ValidWindow, Unset, Malformed
  <2>2. CASE source = "prometheus"
    <3>1. p \in Pods /\ Selects(at, p) /\ born[p] + Window <= end[at] /\ end[at] <= died[p]
      BY <2>2 DEF Filling
    <3>2. /\ Len(Series(p, r, end[at])) \in Nat /\ Len(Series(p, r, end[at])) >= Window
          /\ Known(p, at)[r] = Series(p, r, end[at])
      BY <2>0, <2>1, <3>1, SeriesLength DEF Known
    <3>3. Known(p, at)[r] # <<>>
      BY <2>1, <3>2
    <3>4. p \in DOMAIN metrics /\ metrics[p][r] = Known(p, at)[r]
      BY <2>2, <3>1, <3>3 DEF MetricsKnown
    <3> QED
      BY <2>0, <2>1, <3>2, <3>4
  <2>3. CASE source = "mock"
    <3> DEFINE n == IF Window > MaxClock THEN MaxClock ELSE Window
               f == [k \in 1..n |-> usage[p][r][k]]
    <3>1. n \in Nat /\ n >= MinDataPoints /\ n <= MaxClock /\ MockSteps = 1..n
      BY <2>0, <2>1 DEF MockSteps
    <3>2. p \in MockPods /\ p \in DOMAIN metrics /\ metrics[p][r] = f
      BY <2>3, <3>1 DEF MetricsKnown, Mocked, Filling
    <3>3. usage[p][r] \in [1..MaxClock -> Nat]
      BY <2>0, <3>2, CollectionAssumption DEF TypeOK, Measured
    <3> HIDE DEF n
    <3>4. f \in [1..n -> Nat]
      <4>1. \A k \in 1..n : k \in 1..MaxClock
        BY <2>0, <3>1
      <4>2. \A k \in 1..n : usage[p][r][k] \in Nat
        BY <3>3, <4>1
      <4> QED
        BY <4>2
    <3> HIDE DEF f
    <3>5. Len(f) = n
      BY <3>1, <3>4
    <3> QED
      BY <3>1, <3>2, <3>5
  <2> QED
    BY <2>0, <2>2, <2>3
<1> QED
  BY <1>1, InvAlways, MetricsKnownAlways, PTL

-----------------------------------------------------------------------------
(* The loop comes nearer to its end.                                       *)

LEMMA TodoFinite ==
    ASSUME NEW T \in SUBSET Workloads
    PROVE  /\ IsFiniteSet(T) /\ Cardinality(T) \in Nat
           /\ Cardinality(Workloads) \in Nat /\ Cardinality(T) <= Cardinality(Workloads)
<1> DEFINE f == [p \in Pods |-> Owner[p]]
<1>1. IsFiniteSet(Pods)
  BY CollectionAssumption, FS_Subset DEF Measured
<1>2. f \in Surjection(Pods, Workloads)
  BY DEF Workloads, Surjection
<1> HIDE DEF f
<1>3. IsFiniteSet(Workloads)
  BY <1>1, <1>2, FS_Surjection
<1> QED
  BY <1>3, FS_Subset, FS_CardinalityType

\* An analysis uses up its steps, a failed query no less than an answer
\* (Reconcile, lines 127-148).
THEOREM StepsAlwaysRunOut == Spec => StepsRunOut
<1>1. ASSUME TypeOK, TypeOK', [Next]_vars
      PROVE  [/\ Left \in Nat
              /\ Work => Left' < Left
              /\ ~Discover => Left' <= Left
              /\ Discover => Left' <= 3 * Cardinality(Workloads) + 1]_vars
  <2> DEFINE c == Cardinality(todo)
             d == Cardinality(todo')
             n == Cardinality(Workloads)
  <2>1. IsFiniteSet(todo) /\ c \in Nat /\ d \in Nat /\ n \in Nat /\ d <= n
    <3>1. todo \in SUBSET Workloads /\ todo' \in SUBSET Workloads
      BY <1>1 DEF TypeOK
    <3> QED
      BY <3>1, TodoFinite
  <2>2. Left \in Nat
    BY <2>1 DEF Left
  <2>3. ASSUME NEW w \in Workloads, Start(w) PROVE Left' < Left
    <3>1. d = c - 1
      BY <2>1, <2>3, FS_RemoveElement DEF Start
    <3>2. pc = "next" /\ pc' \in {"cpu", "mock"}
      BY <2>3 DEF Start
    <3>3. Left = 3 * c + 1 /\ Left' <= 3 * d + 3
      BY <2>1, <3>2 DEF Left
    <3>4. Left \in Nat /\ Left' \in Nat
      BY <2>1 DEF Left
    <3> HIDE DEF c, d
    <3> QED
      BY <2>1, <3>1, <3>3, <3>4
  <2>4. ASSUME AnswerCpu \/ AnswerMemory \/ AnswerMock \/ QueryFails \/ End
        PROVE  Left' < Left
    <3>1. /\ todo' = todo
          /\ \/ pc = "cpu" /\ pc' \in {"memory", "next"}
             \/ pc \in {"memory", "mock"} /\ pc' = "next"
             \/ pc = "next" /\ pc' = "done"
      BY <2>4 DEF AnswerCpu, AnswerMemory, AnswerMock, Answered, QueryFails, End
    <3> QED
      BY <2>1, <3>1 DEF Left
  <2>5. Work => Left' < Left
    BY <2>3, <2>4 DEF Work
  <2>6. Discover => Left' <= 3 * n + 1
    <3>1. Discover => pc' = "next"
      BY DEF Discover
    <3>2. pc' = "next" => Left' = 3 * d + 1
      BY <2>1 DEF Left
    <3> QED
      BY <2>1, <3>1, <3>2
  <2>7. UNCHANGED loop => Left' = Left
    BY DEF loop, Left
  <2>8. Next => Discover \/ Work \/ UNCHANGED loop
    BY DEF Next, Tick, PodStarts, PodStops
  <2>9. Left' \in Nat
    BY <2>1 DEF Left
  <2> HIDE DEF c, d, n
  <2>10. Next => (~Discover => Left' <= Left)
    BY <2>2, <2>5, <2>7, <2>8, <2>9
  <2> QED
    BY <1>1, <2>2, <2>5, <2>6, <2>10 DEF n
<1>2. Inv => TypeOK
  BY DEF Inv
<1> QED
  BY <1>1, <1>2, InvAlways, PTL DEF Spec, StepsRunOut
===============================================================================
