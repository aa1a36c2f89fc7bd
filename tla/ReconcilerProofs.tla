-------------------------- MODULE ReconcilerProofs --------------------------
(***************************************************************************)
(* Proofs about shouldRunAnalysis and requeueAfter, for every schedule and *)
(* every instant, and about the controller, for any number of resources,   *)
(* workloads, workers, failed calls, restarts and edits.                   *)
(***************************************************************************)
EXTENDS Reconciler, WellFoundedInduction, TLAPS

\* A set of naturals that is not empty has a minimum, and Min is it.
LEMMA MinOfNaturals ==
    ASSUME NEW S \in SUBSET Nat, S # {}
    PROVE  Min(S) \in S /\ \A x \in S : Min(S) <= x
  <1> DEFINE Less == OpToRel(<, Nat)
  <1>1. PICK x \in S : \A y \in S : <<y, x>> \notin Less
    BY NatLessThanWellFounded, WFMin
  <1>2. \A y \in S : y < x => <<y, x>> \in Less
    BY DEF OpToRel
  <1>3. \A y \in S : ~ (y < x)
    BY <1>1, <1>2, Zenon
  <1>4. \A y \in S : x <= y
    BY <1>3
  <1> QED
    BY <1>4 DEF Min

\* cron's Next answers a later firing with no firing in between, or the zero
\* time when there is no later firing.
LEMMA CronNextIsNext ==
    ASSUME NEW s \in Schedules, NEW t \in Nat
    PROVE  /\ CronNext(s, t) \in Nat
           /\ CronNext(s, t) = ZeroTime \/ (CronNext(s, t) > t /\ CronNext(s, t) \in Fires[s])
           /\ \A f \in Fires[s] : f > t => f >= CronNext(s, t)
  <1> DEFINE later == {f \in Fires[s] : f > t}
  <1>1. later \in SUBSET Nat
    BY ScheduleAssumption
  <1>2. CASE later = {}
    BY <1>2, ScheduleAssumption DEF CronNext, ZeroTime
  <1>3. CASE later # {}
    <2>1. CronNext(s, t) = Min(later)
      BY <1>3 DEF CronNext
    <2> QED
      BY <2>1, <1>1, <1>3, MinOfNaturals
  <1> QED
    BY <1>2, <1>3

\* A resource that is due stays due until it is analysed (shouldRunAnalysis,
\* lines 182-200): the decision survives any delay between the moment it is
\* taken and the moment it is stored.
THEOREM DueStaysDue ==
    ASSUME NEW s \in Schedules, NEW last \in Nat, NEW now \in Nat, NEW then \in Nat,
           now <= then, ShouldRun(s, last, now)
    PROVE  ShouldRun(s, last, then)
  <1>1. Hour \in Nat /\ CronNext(s, last) \in Nat
    BY ScheduleAssumption, CronNextIsNext
  <1> QED
    BY <1>1 DEF ShouldRun

\* requeueAfter never answers less than a minute or more than a day, whatever
\* cron's Next answers, the zero time included (lines 203-226).
THEOREM RequeueAfterBounds ==
    ASSUME NEW s \in Schedules, NEW now \in Nat
    PROVE  RequeueAfter(s, now) \in Minute..Day
  <1>1. CronNext(s, now) \in Nat
    BY CronNextIsNext
  <1> QED
    BY <1>1, ScheduleAssumption DEF RequeueAfter, Clamp

\* A resource that is not due when the clock is read is looked at again by its
\* deadline, provided requeueAfter reads the clock at the same instant.
THEOREM RequeueMeetsDeadline ==
    ASSUME NEW s \in Schedules, NEW last \in Nat, NEW now \in Nat,
           last <= now, ~ShouldRun(s, last, now)
    PROVE  now + RequeueAfter(s, now) <= Deadline(s, last)
  <1>1. /\ Minute \in Nat /\ Hour \in Nat /\ Day \in Nat
        /\ Minute < Hour /\ Hour < Day /\ Fires[s] \subseteq Nat
    BY ScheduleAssumption
  <1>2. CASE s \in Malformed
    BY <1>1, <1>2 DEF ShouldRun, RequeueAfter, Deadline
  <1>3. CASE s \notin Malformed
    <2> DEFINE next == CronNext(s, last)
               wait == CronNext(s, now) - now
    <2>1. /\ next \in Nat /\ now < next
      BY <1>3, CronNextIsNext DEF ShouldRun
    <2>2. next \in Fires[s]
      BY <2>1, CronNextIsNext DEF ZeroTime
    <2>3. /\ CronNext(s, now) \in Nat
          /\ next >= CronNext(s, now)
      BY <2>1, <2>2, CronNextIsNext
    <2>4. now + Clamp(wait) <= next + Minute
      BY <2>1, <2>3, <1>1 DEF Clamp
    <2> QED
      BY <2>4, <1>3 DEF RequeueAfter, Deadline
  <1> QED
    BY <1>2, <1>3

-----------------------------------------------------------------------------

USE DEF Never, NoWake

LEMMA NewTyped == ASSUME NEW s \in Specs PROVE New(s) \in Object
  BY DEF New, Object, Phases

LEMMA IdleTyped == Idle \in Call
  <1>1. (CHOOSE s \in Specs : TRUE) \in Specs
    BY ReconcilerAssumption
  <1>2. New(CHOOSE s \in Specs : TRUE) \in Object
    BY <1>1, NewTyped
  <1>3. NoRecs \in [Workloads -> Values \cup {None}]
    BY DEF NoRecs
  <1> QED
    BY <1>2, <1>3 DEF Idle, Call, Steps

LEMMA RequeueTyped ==
    ASSUME NEW s \in Schedules, NEW now \in Nat
    PROVE  RequeueAfter(s, now) \in Nat /\ RequeueAfter(s, now) > 0
  BY RequeueAfterBounds, ScheduleAssumption

LEMMA CallTyped ==
    ASSUME TypeOK, NEW p \in Prs
    PROVE  /\ run[p] \in Call /\ run[p].obj \in Object
           /\ run[p].obj.spec \in Specs /\ run[p].obj.spec.schedule \in Schedules
           /\ run[p].recs \in [Workloads -> Values \cup {None}]
           /\ run[p].count \in Nat /\ run[p].obj.last \in Nat
  BY ReconcilerAssumption DEF TypeOK, Call, Object

LEMMA PhasedTyped ==
    ASSUME TypeOK, NEW p \in Prs, NEW phase \in Phases
    PROVE  Phased(p, phase) \in Object
  BY CallTyped DEF Phased, Object

LEMMA GoOnTyped ==
    ASSUME TypeOK, NEW p \in Prs, NEW obj \in Object, NEW pc \in Steps
    PROVE  GoOn(p, obj, pc) \in Call
  BY CallTyped DEF GoOn, Call

LEMMA StoredTyped ==
    ASSUME TypeOK, NEW p \in Prs, NEW obj \in Object, Stored(p, obj)
    PROVE  api' \in [Prs -> Object] /\ fresh' \in [Prs -> BOOLEAN]
  <1>1. [obj EXCEPT !.spec = api[p].spec] \in Object
    BY DEF TypeOK, Object
  <1> QED
    BY <1>1 DEF Stored, TypeOK

LEMMA RetryTyped ==
    ASSUME TypeOK, NEW p \in Prs, Retry(p)
    PROVE  run' \in [Prs -> Call] /\ queue' \subseteq Prs
  BY IdleTyped DEF Retry, TypeOK

LEMMA FaultyTyped == ASSUME TypeOK, Faulty PROVE faults' \in Nat
  BY DEF Faulty, TypeOK

LEMMA EditedTyped == ASSUME TypeOK, Edited PROVE edits' \in Nat
  BY DEF Edited, TypeOK

LEMMA UpdatePhaseTyped ==
    ASSUME TypeOK, NEW p \in Prs, NEW obj \in Object, NEW then \in Call,
           UpdatePhase(p, obj, then)
    PROVE  TypeOK'
  <1>1. run' \in [Prs -> Call] /\ queue' \subseteq Prs
    BY RetryTyped DEF UpdatePhase, TypeOK
  <1>2. api' \in [Prs -> Object] /\ fresh' \in [Prs -> BOOLEAN]
    BY StoredTyped DEF UpdatePhase, TypeOK
  <1>3. faults' \in Nat
    BY FaultyTyped DEF UpdatePhase, TypeOK
  <1> QED
    BY <1>1, <1>2, <1>3 DEF UpdatePhase, TypeOK, cluster

LEMMA ResizedTyped ==
    ASSUME TypeOK, NEW w \in Workloads, NEW v \in Values, Resized(w, v)
    PROVE  tmpl' \in [Workloads -> Values] /\ wlFresh' \in [Workloads -> BOOLEAN]
  BY DEF Resized, TypeOK

LEMMA OutdatedTyped ==
    ASSUME TypeOK, NEW q \in Prs, NEW w \in Workloads
    PROVE  Outdated(q, w) \in Call
  BY CallTyped DEF Outdated, Call

LEMMA HandledTyped ==
    ASSUME TypeOK, NEW p \in Prs, NEW n \in Nat, run[p].at \in Workloads
    PROVE  Handled(p, n) \in Call
  BY CallTyped DEF Handled, Call, Steps
-----------------------------------------------------------------------------
(* Types, and what a call in progress has recommended.                     *)

TypeInv == TypeOK /\ OnlyRecommended

LEMMA IdleRecommended == \A p \in Prs : Recommended(p, Idle)
  BY DEF Idle, NoRecs, Recommended

LEMMA InitTyped == Init => TypeInv
  <1> SUFFICES ASSUME Init PROVE TypeInv
    OBVIOUS
  <1>1. api \in [Prs -> Object]
    BY NewTyped DEF Init
  <1>2. run \in [Prs -> Call]
    BY IdleTyped DEF Init
  <1>3. TypeOK
    BY <1>1, <1>2 DEF Init, TypeOK
  <1>4. OnlyRecommended
    BY IdleRecommended DEF Init, OnlyRecommended
  <1> QED
    BY <1>3, <1>4 DEF TypeInv

\* Reconcile works on the call of one resource.
LEMMA OneCallChanges ==
    ASSUME TypeInv, NEW p \in Prs, NEW call \in Call, Recommended(p, call),
           run' = [run EXCEPT ![p] = call]
    PROVE  run' \in [Prs -> Call] /\ OnlyRecommended'
  BY DEF TypeInv, TypeOK, OnlyRecommended

\* A change of a call that only makes copies old.
LEMMA OutdatedRecommended ==
    ASSUME TypeInv, NEW q \in Prs, NEW w \in Workloads
    PROVE  Outdated(q, w) \in Call /\ Recommended(q, Outdated(q, w))
  <1>1. run[q] \in Call /\ Recommended(q, run[q])
    BY DEF TypeInv, TypeOK, OnlyRecommended
  <1>2. Outdated(q, w) \in Call
    BY OutdatedTyped DEF TypeInv
  <1>3. Outdated(q, w) = [run[q] EXCEPT !.wcur = run[q].wcur /\ run[q].at # w]
    BY <1>1 DEF Outdated, Call
  <1>4. /\ Outdated(q, w).found = run[q].found /\ Outdated(q, w).pc = run[q].pc
        /\ Outdated(q, w).obj = run[q].obj /\ Outdated(q, w).recs = run[q].recs
        /\ Outdated(q, w).at = run[q].at
    BY <1>1, <1>3 DEF Call
  <1> QED
    BY <1>1, <1>2, <1>4 DEF Recommended

LEMMA RetryRecommends ==
    ASSUME TypeInv, NEW p \in Prs, Retry(p)
    PROVE  OnlyRecommended'
  BY OneCallChanges, IdleTyped, IdleRecommended DEF Retry

\* A write keeps what the call recommends, whatever the phase.
LEMMA UpdatePhaseRecommends ==
    ASSUME TypeInv, NEW p \in Prs, NEW obj \in Object, NEW then \in Call,
           UpdatePhase(p, obj, then), Recommended(p, then)
    PROVE  OnlyRecommended'
  BY RetryRecommends, OneCallChanges DEF UpdatePhase

LEMMA WriteTyped ==
    ASSUME TypeInv, NEW p \in Prs, NEW phase \in Phases, NEW pc \in Steps,
           pc \notin {"claim", "update"}, pc = "apply" => ~run[p].obj.spec.dryRun,
           UpdatePhase(p, Phased(p, phase), GoOn(p, Phased(p, phase), pc))
    PROVE  TypeInv'
  <1> DEFINE obj  == Phased(p, phase)
             then == GoOn(p, obj, pc)
  <1>0. TypeOK /\ run[p] \in Call /\ Recommended(p, run[p])
    BY DEF TypeInv, TypeOK, OnlyRecommended
  <1>1. obj \in Object /\ then \in Call
    BY <1>0, PhasedTyped, GoOnTyped
  <1>2. /\ then.found = run[p].found /\ then.recs = run[p].recs /\ then.pc = pc
        /\ then.obj.spec = run[p].obj.spec
    BY <1>0, CallTyped DEF GoOn, Phased, Call, Object
  <1>3. Recommended(p, then)
    BY <1>0, <1>2 DEF Recommended
  <1>4. UpdatePhase(p, obj, then)
    OBVIOUS
  <1> HIDE DEF obj, then
  <1> QED
    BY <1>0, <1>1, <1>3, <1>4, UpdatePhaseTyped, UpdatePhaseRecommends DEF TypeInv

LEMMA ReconcileTyped ==
    ASSUME TypeInv, NEW p \in Prs, Reconcile(p)
    PROVE  TypeInv'
  <1> USE DEF store, cluster
  <1>0. /\ TypeOK /\ OnlyRecommended
        /\ run \in [Prs -> Call] /\ run[p] \in Call /\ Recommended(p, run[p])
        /\ run[p].obj \in Object /\ clock \in Nat /\ run[p].count \in Nat
    BY CallTyped DEF TypeInv, TypeOK, OnlyRecommended
  <1>1. CASE WriteAnalyzing(p)
    BY <1>1, WriteTyped DEF WriteAnalyzing, Steps, Phases
  <1>2. CASE Discover(p)
    <2> DEFINE found == Targets[p] \cap running
               next(pc) == [run[p] EXCEPT !.found = found, !.pc = pc]
    <2>1. PICK call \in {next("empty"), next("recommending"),
                         [run[p] EXCEPT !.pc = "failed"]} :
            run' = [run EXCEPT ![p] = call]
      BY <1>0, <1>2 DEF Discover, Call
    <2> HIDE DEF found
    <2>2. \A pc \in {"empty", "recommending"} : next(pc) \in Call /\ Recommended(p, next(pc))
      <3>1. found \subseteq Targets[p] /\ found \in SUBSET Workloads
        BY ReconcilerAssumption DEF found
      <3> QED
        BY <1>0, <3>1 DEF Call, Steps, Recommended
    <2>3. [run[p] EXCEPT !.pc = "failed"] \in Call
          /\ Recommended(p, [run[p] EXCEPT !.pc = "failed"])
      BY <1>0 DEF Call, Steps, Recommended
    <2>4. call \in Call /\ Recommended(p, call)
      BY <2>1, <2>2, <2>3
    <2>5. run' \in [Prs -> Call] /\ OnlyRecommended'
      BY <2>1, <2>4, OneCallChanges
    <2> QED
      BY <1>0, <1>2, <2>5, FaultyTyped DEF Discover, TypeInv, TypeOK
  <1>3. CASE WriteError(p)
    <2> DEFINE obj == Phased(p, "Error")
    <2>1. Retry(p) /\ (Stored(p, obj) \/ UNCHANGED <<api, fresh>>)
      BY <1>3 DEF WriteError
    <2>2. obj \in Object
      BY <1>0, PhasedTyped DEF Phases
    <2> HIDE DEF obj
    <2>3. api' \in [Prs -> Object] /\ fresh' \in [Prs -> BOOLEAN]
      BY <1>0, <2>1, <2>2, StoredTyped DEF TypeOK
    <2>4. faults' \in Nat
      BY <1>0, <1>3, FaultyTyped DEF WriteError, TypeOK
    <2> QED
      BY <1>0, <1>3, <2>1, <2>3, <2>4, RetryTyped, RetryRecommends
         DEF WriteError, TypeInv, TypeOK
  <1>4. CASE WriteNoPods(p)
    BY <1>4, WriteTyped DEF WriteNoPods, Steps, Phases
  <1>5. CASE WriteRecommending(p)
    BY <1>5, WriteTyped DEF WriteRecommending, Steps, Phases
  <1>6. CASE Generate(p)
    <2>1. PICK some \in SUBSET run[p].found : \E value \in [some -> Values] :
            run' = [run EXCEPT ![p] =
              [@ EXCEPT !.found = {},
                        !.obj.last = clock,
                        !.recs = [w \in Workloads |->
                                    IF w \in some THEN value[w] ELSE None],
                        !.pc = IF run[p].obj.spec.dryRun THEN "finish" ELSE "claim"]]
      BY <1>6 DEF Generate
    <2>2. PICK value \in [some -> Values] :
            run' = [run EXCEPT ![p] =
              [@ EXCEPT !.found = {},
                        !.obj.last = clock,
                        !.recs = [w \in Workloads |->
                                    IF w \in some THEN value[w] ELSE None],
                        !.pc = IF run[p].obj.spec.dryRun THEN "finish" ELSE "claim"]]
      BY <2>1
    <2> DEFINE recs == [w \in Workloads |-> IF w \in some THEN value[w] ELSE None]
               obj  == [run[p].obj EXCEPT !.last = clock]
               pc   == IF run[p].obj.spec.dryRun THEN "finish" ELSE "claim"
               call == [run[p] EXCEPT !.found = {}, !.obj = obj, !.recs = recs, !.pc = pc]
    <2>3. recs \in [Workloads -> Values \cup {None}]
      OBVIOUS
    <2>4. \A w \in Workloads : recs[w] # None => w \in Targets[p]
      BY <1>0, ReconcilerAssumption DEF Recommended
    <2>5. obj \in Object /\ obj.spec = run[p].obj.spec
      BY <1>0 DEF Object
    <2>6. run' = [run EXCEPT ![p] = call]
      BY <1>0, <2>2 DEF Call
    <2> HIDE DEF recs, obj
    <2>7. call \in Call /\ Recommended(p, call)
      BY <1>0, <2>3, <2>4, <2>5 DEF Call, Steps, Recommended
    <2>8. run' \in [Prs -> Call] /\ OnlyRecommended'
      BY <2>6, <2>7, OneCallChanges
    <2> QED
      BY <1>0, <1>6, <2>8 DEF Generate, TypeInv, TypeOK
  <1>7. CASE Claim(p)
    BY <1>0, <1>7, WriteTyped DEF Claim, Steps, Phases, Recommended
  <1>8. ASSUME NEW w \in Workloads, GetWorkload(p, w) PROVE TypeInv'
    <2> DEFINE dropped == [run[p] EXCEPT !.recs = [@ EXCEPT ![w] = None]]
               opened  == [run[p] EXCEPT !.at = w, !.wcur = wlFresh[w], !.pc = "update"]
    <2>1. \/ run' = [run EXCEPT ![p] = dropped]
          \/ run' = [run EXCEPT ![p] = opened] /\ run[p].obj.spec.strategy # "manual"
      BY <1>0, <1>8 DEF GetWorkload, Call
    <2>2. dropped \in Call /\ Recommended(p, dropped)
      BY <1>0, <1>8 DEF Call, Recommended, GetWorkload
    <2>3. run[p].obj.spec.strategy # "manual" => opened \in Call /\ Recommended(p, opened)
      BY <1>0, <1>8 DEF Call, Recommended, GetWorkload, Steps, TypeOK
    <2> HIDE DEF dropped, opened
    <2>4. run' \in [Prs -> Call] /\ OnlyRecommended'
      BY <2>1, <2>2, <2>3, OneCallChanges
    <2> QED
      BY <1>0, <1>8, <2>4, FaultyTyped DEF GetWorkload, TypeInv, TypeOK
  <1>9. CASE UpdateWorkload(p)
    <2> DEFINE w == run[p].at
    <2>1. /\ w \in Workloads /\ run[p].recs[w] \in Values /\ run[p].pc = "update"
          /\ run[p].count + 1 \in Nat
      BY <1>0, <1>9 DEF UpdateWorkload, Recommended, Call
    <2>2. \A n \in Nat : Handled(p, n) \in Call /\ Recommended(p, Handled(p, n))
      <3> SUFFICES ASSUME NEW n \in Nat
                   PROVE  Handled(p, n) \in Call /\ Recommended(p, Handled(p, n))
        OBVIOUS
      <3>1. Handled(p, n) \in Call
        BY <1>0, <2>1, HandledTyped
      <3>2. /\ Handled(p, n).found = run[p].found /\ Handled(p, n).pc = "apply"
            /\ Handled(p, n).obj = run[p].obj
            /\ \A x \in Workloads : Handled(p, n).recs[x] \in {None, run[p].recs[x]}
        BY <1>0, <2>1 DEF Handled, Call
      <3> QED
        BY <1>0, <2>1, <3>1, <3>2 DEF Recommended
    <2>3. PICK n \in Nat :
            \/ run' = [q \in Prs |-> IF q = p THEN Handled(p, n) ELSE Outdated(q, w)]
            \/ run' = [run EXCEPT ![p] = Handled(p, n)]
      BY <1>0, <1>9, <2>1 DEF UpdateWorkload
    <2>4. \A q \in Prs : run'[q] \in Call /\ Recommended(q, run'[q])
      BY <1>0, <2>1, <2>2, <2>3, OutdatedRecommended DEF OnlyRecommended
    <2>5. run' \in [Prs -> Call] /\ OnlyRecommended'
      BY <1>0, <2>3, <2>4 DEF OnlyRecommended
    <2>6. /\ tmpl' \in [Workloads -> Values] /\ wlFresh' \in [Workloads -> BOOLEAN]
          /\ faults' \in Nat
      BY <1>0, <1>9, <2>1, ResizedTyped, FaultyTyped DEF UpdateWorkload, TypeOK
    <2> QED
      BY <1>0, <1>9, <2>5, <2>6 DEF UpdateWorkload, TypeInv, TypeOK
  <1>10. CASE EndApply(p)
    <2> DEFINE obj  == [run[p].obj EXCEPT !.updated = run[p].count]
               call == [run[p] EXCEPT !.obj = obj, !.count = 0, !.pc = "finish"]
    <2>1. run' = [run EXCEPT ![p] = call]
      BY <1>0, <1>10 DEF EndApply, Call
    <2>2. obj \in Object
      BY <1>0 DEF Object
    <2> HIDE DEF obj
    <2>3. call \in Call /\ Recommended(p, call)
      BY <1>0, <2>2 DEF Call, Steps, Recommended
    <2>4. run' \in [Prs -> Call] /\ OnlyRecommended'
      BY <2>1, <2>3, OneCallChanges
    <2> QED
      BY <1>0, <1>10, <2>4 DEF EndApply, TypeInv, TypeOK
  <1>11. CASE Finish(p)
    <2> DEFINE obj  == Phased(p, "Completed")
               then == [GoOn(p, obj, "return") EXCEPT !.recs = NoRecs]
    <2>1. obj \in Object /\ GoOn(p, obj, "return") \in Call
      BY <1>0, PhasedTyped, GoOnTyped DEF Phases, Steps
    <2> HIDE DEF obj
    <2>2. then \in Call /\ then.found = run[p].found /\ then.pc = "return"
          /\ \A w \in Workloads : then.recs[w] = None
      BY <1>0, <2>1 DEF Call, NoRecs, GoOn
    <2>3. Recommended(p, then)
      BY <1>0, <2>2 DEF Recommended
    <2>4. UpdatePhase(p, obj, then)
      BY <1>11 DEF Finish, obj
    <2> HIDE DEF then
    <2> QED
      BY <1>0, <2>1, <2>2, <2>3, <2>4, UpdatePhaseTyped, UpdatePhaseRecommends DEF TypeInv
  <1>12. CASE Return(p)
    <2>1. RequeueAfter(run[p].obj.spec.schedule, clock) \in Nat
      BY <1>0, CallTyped, RequeueTyped
    <2>2. run' \in [Prs -> Call] /\ OnlyRecommended'
      BY <1>12, IdleTyped, IdleRecommended, OneCallChanges DEF Return
    <2> QED
      BY <1>0, <1>12, <2>1, <2>2 DEF Return, TypeInv, TypeOK
  <1> QED
    BY <1>1, <1>2, <1>3, <1>4, <1>5, <1>6, <1>7, <1>8, <1>9, <1>10, <1>11, <1>12 DEF Reconcile

LEMMA OthersTyped ==
    ASSUME TypeInv, Others
    PROVE  TypeInv'
  <1> USE DEF store, cluster
  <1>0. TypeOK /\ OnlyRecommended /\ run \in [Prs -> Call]
    BY DEF TypeInv, TypeOK
  <1>1. ASSUME NEW p \in Prs, run' = [run EXCEPT ![p].cur = FALSE]
        PROVE  run' \in [Prs -> Call] /\ OnlyRecommended'
    <2> DEFINE call == [run[p] EXCEPT !.cur = FALSE]
    <2>1. call \in Call /\ Recommended(p, call)
      BY <1>0 DEF Call, OnlyRecommended, Recommended
    <2> QED
      BY <1>1, <2>1, OneCallChanges
  <1>2. ASSUME NEW p \in Prs, EditSpec(p) PROVE TypeInv'
    <2>1. PICK s \in Specs : api' = [api EXCEPT ![p].spec = s]
      BY <1>2 DEF EditSpec
    <2>2. api' \in [Prs -> Object]
      BY <1>0, <2>1 DEF TypeOK, Object
    <2> QED
      BY <1>0, <1>1, <1>2, <2>2, EditedTyped DEF EditSpec, TypeInv, TypeOK
  <1>3. ASSUME NEW p \in Prs, Delete(p) PROVE TypeInv'
    BY <1>0, <1>1, <1>3, EditedTyped DEF Delete, TypeInv, TypeOK
  <1>4. ASSUME NEW w \in Workloads, EditTemplate(w) PROVE TypeInv'
    <2>1. PICK v \in Values : Resized(w, v)
      BY <1>4 DEF EditTemplate
    <2>2. run' = [q \in Prs |-> Outdated(q, w)]
      BY <1>4 DEF EditTemplate
    <2>3. run' \in [Prs -> Call] /\ OnlyRecommended'
      BY <2>2, OutdatedRecommended DEF OnlyRecommended
    <2> QED
      BY <1>0, <1>4, <2>1, <2>3, ResizedTyped, EditedTyped DEF EditTemplate, TypeInv, TypeOK
  <1>5. ASSUME NEW w \in Workloads, Scale(w) PROVE TypeInv'
    BY <1>0, <1>5, EditedTyped DEF Scale, TypeInv, TypeOK, OnlyRecommended
  <1>6. ASSUME NEW w \in Workloads, PodEvent(w) PROVE TypeInv'
    BY <1>0, <1>6, EditedTyped DEF PodEvent, TypeInv, TypeOK, OnlyRecommended
  <1> QED
    BY <1>2, <1>3, <1>4, <1>5, <1>6 DEF Others

\* TypeInv is inductive.
LEMMA NextTyped == ASSUME TypeInv, [Next]_vars PROVE TypeInv'
  <1> USE DEF store, cluster
  <1>0. TypeOK /\ OnlyRecommended
    BY DEF TypeInv
  <1>1. CASE Tick
    BY <1>0, <1>1 DEF Tick, TypeInv, TypeOK, OnlyRecommended
  <1>2. ASSUME NEW p \in Prs, WakeUp(p) PROVE TypeInv'
    BY <1>0, <1>2 DEF WakeUp, TypeInv, TypeOK, OnlyRecommended
  <1>3. ASSUME NEW p \in Prs, SyncPrs(p) PROVE TypeInv'
    BY <1>0, <1>3 DEF SyncPrs, TypeInv, TypeOK, OnlyRecommended
  <1>4. ASSUME NEW p \in Prs, Take(p) PROVE TypeInv'
    <2> DEFINE pc == IF ShouldRun(cache[p].spec.schedule, cache[p].last, clock)
                     THEN "analyzing" ELSE "return"
               taken == [Idle EXCEPT !.obj = cache[p], !.cur = fresh[p], !.pc = pc]
    <2>1. taken \in Call
      BY <1>0, IdleTyped DEF Call, TypeOK, Steps
    <2>2. Recommended(p, taken)
      BY IdleTyped, IdleRecommended DEF Call, Recommended
    <2>3. run' = IF p \notin cached THEN run ELSE [run EXCEPT ![p] = taken]
      BY <1>4 DEF Take
    <2> HIDE DEF taken
    <2>4. run' \in [Prs -> Call] /\ OnlyRecommended'
      BY <1>0, <2>1, <2>2, <2>3, OneCallChanges DEF TypeOK, OnlyRecommended
    <2> QED
      BY <1>0, <1>4, <2>4 DEF Take, TypeInv, TypeOK
  <1>5. ASSUME NEW p \in Prs, Reconcile(p) PROVE TypeInv'
    BY <1>5, ReconcileTyped
  <1>6. ASSUME NEW w \in Workloads, SyncWorkload(w) PROVE TypeInv'
    BY <1>0, <1>6 DEF SyncWorkload, TypeInv, TypeOK, OnlyRecommended
  <1>7. CASE Others
    BY <1>7, OthersTyped
  <1>8. CASE Restart
    BY <1>0, <1>8, FaultyTyped, IdleTyped, IdleRecommended
       DEF Restart, TypeInv, TypeOK, OnlyRecommended
  <1>9. CASE UNCHANGED vars
    BY <1>0, <1>9 DEF vars, TypeInv, TypeOK, OnlyRecommended
  <1> QED
    BY <1>1, <1>2, <1>3, <1>4, <1>5, <1>6, <1>7, <1>8, <1>9 DEF Next

LEMMA TypeInvariant == Spec => []TypeInv
  BY InitTyped, NextTyped, PTL DEF Spec

\* Every variable keeps its type, and every call in progress touches only what
\* it recommended (Reconcile, lines 71-179, and the apply loop, lines 594-762).
THEOREM TypeCorrect == Spec => [](TypeOK /\ OnlyRecommended)
  BY TypeInvariant DEF TypeInv

\* A call opens a workload only as its spec and an unused recommendation allow.
THEOREM OnlyWhatWasRecommended == Spec => []OnlyRecommended
  BY TypeInvariant, PTL DEF TypeInv
=============================================================================
