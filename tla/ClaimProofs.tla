---------------------------- MODULE ClaimProofs -----------------------------
(***************************************************************************)
(* Proof that no schedule slot is claimed twice.  The inductive invariant  *)
(* says what the API server's version check gives a caller: as long as its *)
(* copy is the newest, the decision it took when it read the resource is   *)
(* still the right one for the resource as stored.                         *)
(***************************************************************************)
EXTENDS ReconcilerProofs, WorkloadVersions

Inv == TypeInv /\ CopiesAgree

LEMMA Typed ==
    ASSUME Inv
    PROVE  /\ TypeOK /\ CopiesAgree /\ OnlyRecommended
           /\ run \in [Prs -> Call] /\ api \in [Prs -> Object] /\ cache \in [Prs -> Object]
           /\ fresh \in [Prs -> BOOLEAN] /\ clock \in Nat \ {0}
  BY DEF Inv, TypeInv, TypeOK

LEMMA IdleIsOld == Idle.cur = FALSE /\ Idle.pc = "idle"
  BY DEF Idle

\* What a write needs of the call it belongs to.
LEMMA UpdatePhaseAgrees ==
    ASSUME Inv, NEW p \in Prs, NEW obj \in Object, NEW then \in Call,
           UpdatePhase(p, obj, then),
           obj.spec = run[p].obj.spec, obj.last = run[p].obj.last,
           then.obj = obj, then.cur = run[p].cur,
           then.pc \in {"discover", "return", "generate", "apply"},
           then.pc \in Unclaimed => run[p].pc \in Unclaimed
    PROVE  CopiesAgree'
  <1>0. /\ \A q \in Prs : CacheAgrees(q) /\ CallAgrees(q)
        /\ run \in [Prs -> Call] /\ api \in [Prs -> Object]
        /\ fresh \in [Prs -> BOOLEAN]
    BY Typed DEF CopiesAgree
  <1>1. UNCHANGED <<clock, alive, cache, cached>>
    BY DEF UpdatePhase
  <1>2. \A q \in Prs \ {p} : /\ run'[q] = run[q] /\ api'[q] = api[q] /\ fresh'[q] = fresh[q]
    BY <1>0 DEF UpdatePhase, Retry, Stored
  <1>3. ASSUME NEW q \in Prs \ {p} PROVE CacheAgrees(q)' /\ CallAgrees(q)'
    BY <1>0, <1>1, <1>2 DEF CacheAgrees, CallAgrees, Recording
  <1>4. CacheAgrees(p)'
    BY <1>0, <1>1 DEF UpdatePhase, Stored, CacheAgrees
  <1>5. CASE run' = [run EXCEPT ![p] = Idle]
    <2>1. CallAgrees(p)'
      BY <1>0, <1>5, IdleIsOld DEF CallAgrees
    <2> QED
      BY <1>3, <1>4, <2>1 DEF CopiesAgree
  <1>6. CASE run[p].cur /\ Stored(p, obj) /\ run' = [run EXCEPT ![p] = then]
    <2>1. run'[p] = then /\ api'[p] = [obj EXCEPT !.spec = api[p].spec]
      BY <1>0, <1>6 DEF Stored
    <2>2. api'[p].spec = obj.spec /\ api'[p].last = obj.last /\ api[p].spec = obj.spec
      BY <1>0, <1>6, <2>1 DEF CallAgrees, Object
    <2>3. p \in alive /\ then.pc # "idle"
      BY <1>0, <1>6 DEF CallAgrees
    <2>4. then.pc \in Unclaimed => api[p].last = obj.last
      BY <1>0, <1>6 DEF CallAgrees, Recording, Unclaimed
    <2>5. CallAgrees(p)'
      BY <1>0, <1>1, <1>6, <2>1, <2>2, <2>3, <2>4 DEF CallAgrees, Recording
    <2> QED
      BY <1>3, <1>4, <2>5 DEF CopiesAgree
  <1> QED
    BY <1>5, <1>6 DEF UpdatePhase, Retry

\* A write moves LastAnalysisTime only to the instant of a due analysis.
LEMMA UpdatePhaseClaims ==
    ASSUME Inv, NEW p \in Prs, NEW obj \in Object, NEW then \in Call,
           UpdatePhase(p, obj, then), obj.last = run[p].obj.last,
           NEW q \in Prs, api'[q].last # api[q].last
    PROVE  /\ ShouldRun(api[q].spec.schedule, api[q].last, api'[q].last)
           /\ api'[q].last \in 1..clock
  <1>0. /\ CallAgrees(p) /\ run \in [Prs -> Call] /\ api \in [Prs -> Object]
    BY Typed DEF CopiesAgree
  <1>1. run[p].cur /\ Stored(p, obj) /\ q = p
    BY <1>0 DEF UpdatePhase, Stored
  <1>2. api'[p].last = obj.last
    BY <1>0, <1>1 DEF Stored, Object
  <1> QED
    BY <1>0, <1>1, <1>2 DEF CallAgrees
\* A step that leaves resources, caches and clock alone, and of each call at
\* most the part that concerns workloads.
LEMMA WorkloadStepAgrees ==
    ASSUME Inv, UNCHANGED <<clock, api, alive, cache, cached, fresh>>,
           \A q \in Prs : /\ run'[q].cur = run[q].cur /\ run'[q].obj.spec = run[q].obj.spec
                          /\ run'[q].obj.last = run[q].obj.last
                          /\ run'[q].pc = run[q].pc
                             \/ (run[q].pc \in {"apply", "update"} /\ run'[q].pc \in {"apply", "update"})
                             \/ (run[q].pc = "discover"
                                 /\ run'[q].pc \in {"failed", "empty", "recommending"})
                             \/ (run[q].pc = "apply" /\ run'[q].pc = "finish"
                                 /\ ~run[q].obj.spec.dryRun)
    PROVE  CopiesAgree'
  <1> SUFFICES ASSUME NEW q \in Prs PROVE CacheAgrees(q)' /\ CallAgrees(q)'
    BY DEF CopiesAgree
  <1>1. CacheAgrees(q) /\ CallAgrees(q)
    BY Typed DEF CopiesAgree
  <1>2. CacheAgrees(q)'
    BY <1>1 DEF CacheAgrees
  <1>3. CallAgrees(q)'
    BY <1>1 DEF CallAgrees, Recording, Unclaimed
  <1> QED
    BY <1>2, <1>3

LEMMA PhasedKeeps ==
    ASSUME Inv, NEW p \in Prs, NEW phase \in Phases, NEW pc \in Steps
    PROVE  LET obj  == Phased(p, phase)
               then == GoOn(p, obj, pc)
           IN  /\ obj \in Object /\ then \in Call
               /\ obj.spec = run[p].obj.spec /\ obj.last = run[p].obj.last
               /\ then.obj = obj /\ then.cur = run[p].cur /\ then.pc = pc
  <1>1. TypeOK /\ run[p] \in Call /\ run[p].obj \in Object
    BY Typed, CallTyped
  <1>2. Phased(p, phase) \in Object /\ GoOn(p, Phased(p, phase), pc) \in Call
    BY <1>1, PhasedTyped, GoOnTyped
  <1> QED
    BY <1>1, <1>2 DEF Phased, GoOn, Call, Object

LEMMA ReconcileAgrees ==
    ASSUME Inv, NEW p \in Prs, Reconcile(p)
    PROVE  CopiesAgree'
  <1> USE DEF store, cluster
  <1>0. /\ TypeOK /\ Recommended(p, run[p])
        /\ \A q \in Prs : CacheAgrees(q) /\ CallAgrees(q)
        /\ run \in [Prs -> Call] /\ run[p] \in Call /\ run[p].obj \in Object
        /\ api \in [Prs -> Object] /\ clock \in Nat \ {0}
    BY Typed, CallTyped DEF CopiesAgree, OnlyRecommended
  <1>1. ASSUME NEW phase \in Phases, NEW pc \in {"discover", "return", "generate", "apply"},
               pc \in Unclaimed => run[p].pc \in Unclaimed,
               UpdatePhase(p, Phased(p, phase), GoOn(p, Phased(p, phase), pc))
        PROVE  CopiesAgree'
    <2> DEFINE obj  == Phased(p, phase)
               then == GoOn(p, obj, pc)
    <2>1. /\ obj \in Object /\ then \in Call
          /\ obj.spec = run[p].obj.spec /\ obj.last = run[p].obj.last
          /\ then.obj = obj /\ then.cur = run[p].cur /\ then.pc = pc
      BY PhasedKeeps DEF Steps
    <2>2. UpdatePhase(p, obj, then)
      BY <1>1
    <2> HIDE DEF obj, then
    <2> QED
      BY <1>1, <2>1, <2>2, UpdatePhaseAgrees
  <1>2. CASE WriteAnalyzing(p)
    BY <1>1, <1>2 DEF WriteAnalyzing, Phases, Unclaimed
  <1>3. CASE Discover(p)
    <2> DEFINE found == Targets[p] \cap running
               next(pc) == [run[p] EXCEPT !.found = found, !.pc = pc]
    <2>0. PICK call \in {next("empty"), next("recommending"),
                         [run[p] EXCEPT !.pc = "failed"]} :
            run' = [run EXCEPT ![p] = call]
      BY <1>0, <1>3 DEF Discover, Call
    <2>1. \A q \in Prs : /\ run'[q].cur = run[q].cur /\ run'[q].obj = run[q].obj
                         /\ run'[q].pc = run[q].pc \/ (run[q].pc = "discover"
                               /\ run'[q].pc \in {"failed", "empty", "recommending"})
      <3>1. /\ call.cur = run[p].cur /\ call.obj = run[p].obj
            /\ call.pc \in {"failed", "empty", "recommending"}
        BY <1>0, <2>0 DEF Call
      <3>2. run[p].pc = "discover"
        BY <1>3 DEF Discover
      <3> QED
        BY <1>0, <2>0, <3>1, <3>2
    <2> QED
      BY <1>3, <2>1, WorkloadStepAgrees DEF Discover
  <1>4. CASE WriteError(p)
    <2>1. \A q \in Prs \ {p} : run'[q] = run[q] /\ api'[q] = api[q] /\ fresh'[q] = fresh[q]
      BY <1>0, <1>4 DEF WriteError, Retry, Stored, TypeOK
    <2>2. run'[p] = Idle
      BY <1>0, <1>4 DEF WriteError, Retry
    <2>3. ASSUME NEW q \in Prs PROVE CacheAgrees(q)'
      <3>1. CASE q # p
        <4>1. cache'[q] = cache[q] /\ cached' = cached /\ alive' = alive
          BY <1>4 DEF WriteError
        <4>2. CacheAgrees(q)
          BY <1>0
        <4> QED
          BY <2>1, <3>1, <4>1, <4>2 DEF CacheAgrees
      <3>2. CASE q = p
        BY <1>0, <1>4, <3>2 DEF WriteError, Stored, CacheAgrees, TypeOK
      <3> QED
        BY <3>1, <3>2
    <2>4. ASSUME NEW q \in Prs PROVE CallAgrees(q)'
      BY <1>0, <1>4, <2>1, <2>2, IdleIsOld DEF WriteError, CallAgrees, Recording
    <2> QED
      BY <2>3, <2>4 DEF CopiesAgree
  <1>5. CASE WriteNoPods(p)
    BY <1>1, <1>5 DEF WriteNoPods, Phases, Unclaimed
  <1>6. CASE WriteRecommending(p)
    BY <1>1, <1>6 DEF WriteRecommending, Phases, Unclaimed
  <1>7. CASE Generate(p)
    <2>1. /\ UNCHANGED <<clock, api, alive, cache, cached, fresh>>
          /\ \A q \in Prs \ {p} : run'[q] = run[q]
          /\ run'[p].cur = run[p].cur /\ run'[p].obj.spec = run[p].obj.spec
          /\ run'[p].obj.last = clock
          /\ run'[p].pc = IF run[p].obj.spec.dryRun THEN "finish" ELSE "claim"
      BY <1>0, <1>7 DEF Generate, Call, Object
    <2>2. ASSUME NEW q \in Prs PROVE CacheAgrees(q)'
      BY <1>0, <2>1 DEF CacheAgrees
    <2>3. ASSUME NEW q \in Prs \ {p} PROVE CallAgrees(q)'
      BY <1>0, <2>1 DEF CallAgrees, Recording
    <2>4. CallAgrees(p)'
      BY <1>0, <1>7, <2>1 DEF CallAgrees, Recording, Unclaimed, Generate
    <2> QED
      BY <2>2, <2>3, <2>4 DEF CopiesAgree
  <1>8. CASE Claim(p)
    BY <1>1, <1>8 DEF Claim, Phases, Unclaimed
  <1>9. ASSUME NEW w \in Workloads, GetWorkload(p, w) PROVE CopiesAgree'
    <2> DEFINE dropped == [run[p] EXCEPT !.recs = [@ EXCEPT ![w] = None]]
               opened  == [run[p] EXCEPT !.at = w, !.wcur = wlFresh[w], !.pc = "update"]
    <2>0. PICK call \in {dropped, opened} : run' = [run EXCEPT ![p] = call]
      BY <1>0, <1>9 DEF GetWorkload, Call
    <2>1. \A q \in Prs : /\ run'[q].cur = run[q].cur /\ run'[q].obj = run[q].obj
                         /\ run'[q].pc = run[q].pc
                            \/ (run[q].pc = "apply" /\ run'[q].pc = "update")
      <3>1. /\ call.cur = run[p].cur /\ call.obj = run[p].obj
            /\ call.pc \in {run[p].pc, "update"}
        BY <1>0, <2>0 DEF Call
      <3>2. run[p].pc = "apply"
        BY <1>9 DEF GetWorkload
      <3> QED
        BY <1>0, <2>0, <3>1, <3>2
    <2> QED
      BY <1>9, <2>1, WorkloadStepAgrees DEF GetWorkload
  <1>10. CASE UpdateWorkload(p)
    <2>1. \A n \in Nat : Handled(p, n).cur = run[p].cur /\ Handled(p, n).obj = run[p].obj
                         /\ Handled(p, n).pc = "apply"
      BY <1>0 DEF Handled, Call
    <2>2. \A q \in Prs : \A w : Outdated(q, w).cur = run[q].cur
                         /\ Outdated(q, w).obj = run[q].obj /\ Outdated(q, w).pc = run[q].pc
      BY <1>0 DEF Outdated, Call
    <2>3. run[p].count \in Nat /\ run[p].count + 1 \in Nat
      BY <1>0 DEF Call
    <2>4. \A q \in Prs : /\ run'[q].cur = run[q].cur /\ run'[q].obj = run[q].obj
                         /\ run'[q].pc = run[q].pc \/ (run[q].pc = "update" /\ run'[q].pc = "apply")
      <3>1. PICK n \in Nat :
              \/ run' = [q \in Prs |-> IF q = p THEN Handled(p, n) ELSE Outdated(q, run[p].at)]
              \/ run' = [run EXCEPT ![p] = Handled(p, n)]
        BY <1>10, <2>3 DEF UpdateWorkload
      <3>2. run[p].pc = "update"
        BY <1>10 DEF UpdateWorkload
      <3> QED
        BY <1>0, <2>1, <2>2, <3>1, <3>2
    <2> QED
      BY <1>10, <2>4, WorkloadStepAgrees DEF UpdateWorkload
  <1>11. CASE EndApply(p)
    <2>1. \A q \in Prs : /\ run'[q].cur = run[q].cur /\ run'[q].obj.spec = run[q].obj.spec
                         /\ run'[q].obj.last = run[q].obj.last
                         /\ run'[q].pc = run[q].pc
                            \/ (run[q].pc = "apply" /\ run'[q].pc = "finish"
                                /\ ~run[q].obj.spec.dryRun)
      BY <1>0, <1>11 DEF EndApply, Call, Object, Recommended
    <2> QED
      BY <1>11, <2>1, WorkloadStepAgrees DEF EndApply
  <1>12. CASE Finish(p)
    <2> DEFINE obj  == Phased(p, "Completed")
               goon == GoOn(p, obj, "return")
               then == [goon EXCEPT !.recs = NoRecs]
    <2>1. /\ obj \in Object /\ goon \in Call
          /\ obj.spec = run[p].obj.spec /\ obj.last = run[p].obj.last
          /\ goon.obj = obj /\ goon.cur = run[p].cur /\ goon.pc = "return"
      <3>1. "Completed" \in Phases /\ "return" \in Steps
        BY DEF Phases, Steps
      <3> QED
        BY <3>1, PhasedKeeps
    <2>2. UpdatePhase(p, obj, then)
      BY <1>12 DEF Finish
    <2> HIDE DEF obj, goon
    <2>3. then \in Call /\ then.obj = obj /\ then.cur = run[p].cur /\ then.pc = "return"
      BY <2>1 DEF Call, NoRecs
    <2> HIDE DEF then
    <2> QED
      BY <2>1, <2>2, <2>3, UpdatePhaseAgrees DEF Unclaimed
  <1>13. CASE Return(p)
    <2>1. run' = [run EXCEPT ![p] = Idle] /\ UNCHANGED <<clock, api, alive, cache, cached, fresh>>
      BY <1>13 DEF Return
    <2>2. \A q \in Prs : CacheAgrees(q)' /\ CallAgrees(q)'
      BY <1>0, <2>1, IdleIsOld DEF CacheAgrees, CallAgrees, Recording
    <2> QED
      BY <2>2 DEF CopiesAgree
  <1> QED
    BY <1>2, <1>3, <1>4, <1>5, <1>6, <1>7, <1>8, <1>9, <1>10, <1>11, <1>12, <1>13 DEF Reconcile

LEMMA InvInductive ==
    ASSUME Inv, [Next]_vars
    PROVE  CopiesAgree'
  <1> USE DEF store, cluster
  <1>0. /\ TypeOK /\ run \in [Prs -> Call] /\ api \in [Prs -> Object]
        /\ cache \in [Prs -> Object] /\ fresh \in [Prs -> BOOLEAN] /\ clock \in Nat \ {0}
        /\ \A q \in Prs : CacheAgrees(q) /\ CallAgrees(q)
    BY Typed DEF CopiesAgree
  <1>1. CASE Tick
    <2>1. clock' = clock + 1 /\ UNCHANGED <<api, alive, cache, cached, fresh, run>>
      BY <1>1 DEF Tick
    <2>2. ASSUME NEW q \in Prs PROVE CacheAgrees(q)' /\ CallAgrees(q)'
      <3>1. api[q].spec.schedule \in Schedules /\ api[q].last \in Nat
        BY <1>0, ReconcilerAssumption DEF Object
      <3>2. ShouldRun(api[q].spec.schedule, api[q].last, clock)
              => ShouldRun(api[q].spec.schedule, api[q].last, clock + 1)
        BY <1>0, <3>1, DueStaysDue
      <3> QED
        BY <1>0, <2>1, <3>2 DEF CacheAgrees, CallAgrees, Recording
    <2> QED
      BY <2>2 DEF CopiesAgree
  <1>2. ASSUME NEW p \in Prs, WakeUp(p) PROVE CopiesAgree'
    BY <1>0, <1>2 DEF WakeUp, CopiesAgree, CacheAgrees, CallAgrees, Recording
  <1>3. ASSUME NEW p \in Prs, SyncPrs(p) PROVE CopiesAgree'
    BY <1>0, <1>3 DEF SyncPrs, CopiesAgree, CacheAgrees, CallAgrees, Recording, TypeOK
  <1>4. ASSUME NEW p \in Prs, Take(p) PROVE CopiesAgree'
    <2> DEFINE due   == ShouldRun(cache[p].spec.schedule, cache[p].last, clock)
               taken == [Idle EXCEPT !.obj = cache[p], !.cur = fresh[p],
                                     !.pc = IF due THEN "analyzing" ELSE "return"]
    <2>1. /\ taken.obj = cache[p] /\ taken.cur = fresh[p]
          /\ taken.pc = IF due THEN "analyzing" ELSE "return"
      BY IdleTyped DEF Call
    <2>2. run' = IF p \notin cached THEN run ELSE [run EXCEPT ![p] = taken]
      BY <1>4 DEF Take
    <2>3. UNCHANGED <<clock, api, alive, cache, cached, fresh>>
      BY <1>4 DEF Take
    <2> HIDE DEF taken
    <2>4. ASSUME NEW q \in Prs PROVE CacheAgrees(q)'
      BY <1>0, <2>3 DEF CacheAgrees
    <2>5. ASSUME NEW q \in Prs \ {p} PROVE CallAgrees(q)'
      BY <1>0, <2>2, <2>3 DEF CallAgrees, Recording
    <2>6. CallAgrees(p)'
      BY <1>0, <2>1, <2>2, <2>3 DEF CacheAgrees, CallAgrees, Recording, Unclaimed
    <2> QED
      BY <2>4, <2>5, <2>6 DEF CopiesAgree
  <1>5. ASSUME NEW p \in Prs, Reconcile(p) PROVE CopiesAgree'
    BY <1>5, ReconcileAgrees
  <1>6. ASSUME NEW w \in Workloads, SyncWorkload(w) PROVE CopiesAgree'
    BY <1>0, <1>6 DEF SyncWorkload, CopiesAgree, CacheAgrees, CallAgrees, Recording
  <1>7. ASSUME NEW p \in Prs, EditSpec(p) \/ Delete(p) PROVE CopiesAgree'
    <2>1. /\ fresh' = [fresh EXCEPT ![p] = FALSE] /\ run' = [run EXCEPT ![p].cur = FALSE]
          /\ UNCHANGED <<clock, cache, cached>>
          /\ \A q \in Prs \ {p} : api'[q] = api[q] /\ (q \in alive' <=> q \in alive)
      BY <1>0, <1>7 DEF EditSpec, Delete
    <2>2. ASSUME NEW q \in Prs \ {p} PROVE CacheAgrees(q)' /\ CallAgrees(q)'
      BY <1>0, <2>1 DEF CacheAgrees, CallAgrees, Recording
    <2>3. CacheAgrees(p)' /\ CallAgrees(p)'
      BY <1>0, <2>1 DEF CacheAgrees, CallAgrees, Call
    <2> QED
      BY <2>2, <2>3 DEF CopiesAgree
  <1>8. ASSUME NEW w \in Workloads, EditTemplate(w) PROVE CopiesAgree'
    <2>1. \A q \in Prs : /\ run'[q].cur = run[q].cur /\ run'[q].obj = run[q].obj
                         /\ run'[q].pc = run[q].pc
      BY <1>0, <1>8 DEF EditTemplate, Outdated, Call
    <2> QED
      BY <1>8, <2>1, WorkloadStepAgrees DEF EditTemplate
  <1>9. ASSUME NEW w \in Workloads, Scale(w) \/ PodEvent(w) PROVE CopiesAgree'
    BY <1>0, <1>9 DEF Scale, PodEvent, CopiesAgree, CacheAgrees, CallAgrees, Recording
  <1>10. CASE Restart
    BY <1>0, <1>10, IdleIsOld DEF Restart, CopiesAgree, CacheAgrees, CallAgrees
  <1>11. CASE UNCHANGED vars
    BY <1>0, <1>11 DEF vars, CopiesAgree, CacheAgrees, CallAgrees, Recording
  <1> QED
    BY <1>1, <1>2, <1>3, <1>4, <1>5, <1>6, <1>7, <1>8, <1>9, <1>10, <1>11 DEF Next, Others

\* Whoever believes to hold the newest version of a resource does (lines 71-179).
THEOREM CopiesStayInAgreement == Spec => []CopiesAgree
  <1>1. Init => CopiesAgree
    BY IdleIsOld DEF Init, CopiesAgree, CacheAgrees, CallAgrees
  <1>2. TypeInv /\ CopiesAgree /\ [Next]_vars => CopiesAgree'
    BY InvInductive DEF Inv
  <1> QED
    BY <1>1, <1>2, TypeInvariant, PTL DEF Spec

\* No slot of a schedule is claimed twice, and none before its time, whatever
\* is stale, fails, is retried or restarted (shouldRunAnalysis, lines 182-200).
THEOREM NoSlotClaimedTwice == Spec => OneAnalysisPerSlot
  <1> DEFINE Claims == \A p \in Prs : api'[p].last # api[p].last =>
                         /\ ShouldRun(api[p].spec.schedule, api[p].last, api'[p].last)
                         /\ api'[p].last \in 1..clock
  <1>1. Inv /\ [Next]_vars => Claims
    <2> SUFFICES ASSUME Inv, [Next]_vars, NEW q \in Prs, api'[q].last # api[q].last
                 PROVE  /\ ShouldRun(api[q].spec.schedule, api[q].last, api'[q].last)
                        /\ api'[q].last \in 1..clock
      OBVIOUS
    <2> USE DEF store
    <2>0. run \in [Prs -> Call] /\ api \in [Prs -> Object] /\ TypeOK
      BY Typed
    <2>1. PICK p \in Prs : Reconcile(p)
      <3>1. ASSUME NEW p \in Prs, EditSpec(p) PROVE FALSE
        BY <2>0, <3>1 DEF EditSpec, Object
      <3>2. ASSUME UNCHANGED api PROVE FALSE
        BY <3>2
      <3> QED
        BY <3>1, <3>2 DEF Next, Others, Tick, WakeUp, SyncPrs, Take, SyncWorkload, Delete,
                          EditTemplate, Scale, PodEvent, Restart, vars
    <2>2. ASSUME NEW phase \in Phases, NEW pc \in Steps,
                 UpdatePhase(p, Phased(p, phase), GoOn(p, Phased(p, phase), pc))
          PROVE  /\ ShouldRun(api[q].spec.schedule, api[q].last, api'[q].last)
                 /\ api'[q].last \in 1..clock
      <3> DEFINE obj  == Phased(p, phase)
                 then == GoOn(p, obj, pc)
      <3>1. obj \in Object /\ then \in Call /\ obj.last = run[p].obj.last
        BY PhasedKeeps
      <3>2. UpdatePhase(p, obj, then)
        BY <2>2
      <3> HIDE DEF obj, then
      <3> QED
        BY <3>1, <3>2, UpdatePhaseClaims
    <2>3. CASE WriteError(p)
      <3>1. run[p].cur /\ Stored(p, Phased(p, "Error")) /\ run[p].pc = "failed" /\ q = p
        BY <2>0, <2>3 DEF WriteError, Stored
      <3>2. api'[p].last = run[p].obj.last
        BY <2>0, <3>1, CallTyped DEF Stored, Phased, Object
      <3>3. run[p].obj.last = api[p].last
        BY <3>1, Typed DEF CopiesAgree, CallAgrees, Recording
      <3> QED
        BY <3>1, <3>2, <3>3
    <2>4. CASE Finish(p)
      <3> DEFINE obj  == Phased(p, "Completed")
                 goon == GoOn(p, obj, "return")
                 then == [goon EXCEPT !.recs = NoRecs]
      <3>1. /\ obj \in Object /\ goon \in Call /\ obj.last = run[p].obj.last
        <4>1. "Completed" \in Phases /\ "return" \in Steps
          BY DEF Phases, Steps
        <4> QED
          BY <4>1, PhasedKeeps
      <3>2. UpdatePhase(p, obj, then)
        BY <2>4 DEF Finish
      <3> HIDE DEF obj, goon
      <3>3. then \in Call
        BY <3>1 DEF Call, NoRecs
      <3> HIDE DEF then
      <3> QED
        BY <3>1, <3>2, <3>3, UpdatePhaseClaims
    <2>5. CASE WriteAnalyzing(p)
      BY <2>2, <2>5 DEF WriteAnalyzing, Phases, Steps
    <2>6. CASE WriteNoPods(p)
      BY <2>2, <2>6 DEF WriteNoPods, Phases, Steps
    <2>7. CASE WriteRecommending(p)
      BY <2>2, <2>7 DEF WriteRecommending, Phases, Steps
    <2>8. CASE Claim(p)
      BY <2>2, <2>8 DEF Claim, Phases, Steps
    <2>9. UNCHANGED api => FALSE
      OBVIOUS
    <2> QED
      BY <2>1, <2>3, <2>4, <2>5, <2>6, <2>7, <2>8, <2>9
         DEF Reconcile, Discover, Generate, GetWorkload, UpdateWorkload, EndApply, Return
  <1> QED
    BY <1>1, TypeInvariant, CopiesStayInAgreement, PTL DEF Spec, Inv, OneAnalysisPerSlot

-----------------------------------------------------------------------------
(* Versions of the workloads: a copy that is believed to be the newest has *)
(* missed no change.                                                       *)

\* A call has a workload open only while it updates it.
Shut(call) == call.pc # "update" => call.at = None

\* What a step may do to the copy that the call of q holds of a workload.
Drops(q) == run'[q].at = None
Reads(q) == run[q].at = None /\ (run'[q].wcur => wlFresh[run'[q].at])
Holds(q) == /\ run'[q].at = run[q].at
            /\ run'[q].wcur => run[q].wcur /\ tmpl'[run[q].at] = tmpl[run[q].at]
Handles(q) == Shut(run'[q]) /\ (Drops(q) \/ Reads(q) \/ Holds(q))

LEMMA IdleIsShut == Shut(Idle) /\ Idle.at = None
  BY DEF Shut, Idle

\* A step of the call of p that opens no workload and changes none.
LEMMA OneCallHandles ==
    ASSUME TypeInv, NEW p \in Prs, \A q \in Prs : Shut(run[q]), UNCHANGED tmpl,
           NEW call \in Call, run' = [run EXCEPT ![p] = call], Shut(call),
           call.at = None \/ (call.at = run[p].at /\ call.wcur = run[p].wcur)
    PROVE  \A q \in Prs : Handles(q)
  <1>1. run \in [Prs -> Call]
    BY DEF TypeInv, TypeOK
  <1> QED
    BY <1>1 DEF Handles, Drops, Holds, Shut

LEMMA UpdatePhaseHandles ==
    ASSUME TypeInv, NEW p \in Prs, \A q \in Prs : Shut(run[q]),
           NEW obj, NEW then \in Call, UpdatePhase(p, obj, then), Shut(then),
           then.at = run[p].at, then.wcur = run[p].wcur
    PROVE  \A q \in Prs : Handles(q)
  <1>1. UNCHANGED tmpl
    BY DEF UpdatePhase, cluster
  <1>2. run' = [run EXCEPT ![p] = Idle] \/ run' = [run EXCEPT ![p] = then]
    BY DEF UpdatePhase, Retry
  <1> QED
    BY <1>1, <1>2, IdleIsShut, IdleTyped, OneCallHandles

LEMMA WriteHandles ==
    ASSUME TypeInv, NEW p \in Prs, \A q \in Prs : Shut(run[q]), run[p].pc # "update",
           NEW phase \in Phases, NEW pc \in Steps \ {"update"},
           UpdatePhase(p, Phased(p, phase), GoOn(p, Phased(p, phase), pc))
    PROVE  \A q \in Prs : Handles(q)
  <1> DEFINE then == GoOn(p, Phased(p, phase), pc)
  <1>1. TypeOK /\ run[p] \in Call
    BY CallTyped DEF TypeInv
  <1>2. Phased(p, phase) \in Object /\ then \in Call
    BY <1>1, PhasedTyped, GoOnTyped
  <1>3. then.at = run[p].at /\ then.wcur = run[p].wcur /\ then.pc = pc
    BY <1>1 DEF GoOn, Call
  <1>4. Shut(then)
    BY <1>3 DEF Shut
  <1>5. UpdatePhase(p, Phased(p, phase), then)
    OBVIOUS
  <1> HIDE DEF then
  <1> QED
    BY <1>2, <1>3, <1>4, <1>5, UpdatePhaseHandles

LEMMA ReconcileHandles ==
    ASSUME TypeInv, NEW p \in Prs, \A q \in Prs : Shut(run[q]), Reconcile(p)
    PROVE  \A q \in Prs : Handles(q)
  <1> USE DEF cluster
  <1>0. /\ TypeOK /\ run \in [Prs -> Call] /\ run[p] \in Call /\ Recommended(p, run[p])
        /\ Shut(run[p])
    BY DEF TypeInv, TypeOK, OnlyRecommended
  <1>1. CASE WriteAnalyzing(p)
    BY <1>1, WriteHandles DEF WriteAnalyzing, Phases, Steps
  <1>10. CASE WriteNoPods(p)
    BY <1>10, WriteHandles DEF WriteNoPods, Phases, Steps
  <1>11. CASE WriteRecommending(p)
    BY <1>11, WriteHandles DEF WriteRecommending, Phases, Steps
  <1>12. CASE Claim(p)
    BY <1>12, WriteHandles DEF Claim, Phases, Steps
  <1>2. CASE Discover(p)
    <2>1. /\ UNCHANGED tmpl /\ run[p].pc # "update"
          /\ \A q \in Prs \ {p} : run'[q] = run[q]
          /\ run'[p].at = run[p].at /\ run'[p].wcur = run[p].wcur /\ run'[p].pc # "update"
      BY <1>0, <1>2 DEF Discover, Call
    <2> QED
      BY <1>0, <2>1 DEF Handles, Holds, Shut
  <1>3. CASE WriteError(p)
    BY <1>3, IdleTyped, IdleIsShut, OneCallHandles DEF WriteError, Retry
  <1>4. CASE Generate(p)
    <2>1. /\ UNCHANGED tmpl
          /\ \A q \in Prs \ {p} : run'[q] = run[q]
          /\ run'[p].at = run[p].at /\ run'[p].wcur = run[p].wcur
          /\ run'[p].pc # "update" /\ run[p].pc # "update"
      BY <1>0, <1>4 DEF Generate, Call
    <2> QED
      BY <2>1 DEF Handles, Holds, Shut
  <1>5. ASSUME NEW w \in Workloads, GetWorkload(p, w) PROVE \A q \in Prs : Handles(q)
    <2>1. UNCHANGED tmpl /\ run[p].pc = "apply" /\ run[p].at = None
      BY <1>0, <1>5 DEF GetWorkload, Shut
    <2>2. \/ run' = [run EXCEPT ![p].recs[w] = None]
          \/ run' = [run EXCEPT ![p].at = w, ![p].wcur = wlFresh[w], ![p].pc = "update"]
      BY <1>5 DEF GetWorkload
    <2>3. \A q \in Prs \ {p} : run'[q] = run[q]
      BY <1>0, <2>2
    <2>4. CASE run' = [run EXCEPT ![p].recs[w] = None]
      BY <1>0, <2>1, <2>3, <2>4 DEF Handles, Drops, Holds, Shut, Call
    <2>5. CASE run' = [run EXCEPT ![p].at = w, ![p].wcur = wlFresh[w], ![p].pc = "update"]
      <3>1. run'[p].at = w /\ run'[p].wcur = wlFresh[w] /\ run'[p].pc = "update"
        BY <1>0, <2>5 DEF Call
      <3> QED
        BY <2>1, <2>3, <3>1 DEF Handles, Reads, Holds, Shut
    <2> QED
      BY <2>2, <2>4, <2>5
  <1>6. CASE UpdateWorkload(p)
    <2>1. \A n \in Nat : Handled(p, n).at = None
      BY <1>0 DEF Handled, Call
    <2>2. \A q \in Prs : \A w : /\ Outdated(q, w).at = run[q].at /\ Outdated(q, w).pc = run[q].pc
                                /\ Outdated(q, w).wcur => run[q].wcur /\ run[q].at # w
      BY <1>0 DEF Outdated, Call
    <2>3. run[p].count \in Nat /\ run[p].count + 1 \in Nat
      BY <1>0 DEF Call
    <2>4. PICK n \in Nat :
            \/ run' = [q \in Prs |-> IF q = p THEN Handled(p, n) ELSE Outdated(q, run[p].at)]
            \/ run' = [run EXCEPT ![p] = Handled(p, n)] /\ UNCHANGED tmpl
      BY <1>6, <2>3 DEF UpdateWorkload
    <2>5. \A w \in Workloads \ {run[p].at} : tmpl'[w] = tmpl[w]
      BY <1>0, <1>6 DEF UpdateWorkload, Resized, TypeOK
    <2>6. Handles(p)
      BY <1>0, <2>1, <2>4 DEF Handles, Drops, Shut
    <2>7. ASSUME NEW q \in Prs \ {p} PROVE Handles(q)
      <3>1. run'[q].at = run[q].at /\ run'[q].pc = run[q].pc
        BY <1>0, <2>2, <2>4
      <3>2. CASE run[q].at = None
        BY <3>1, <3>2 DEF Handles, Drops, Shut
      <3>3. CASE run[q].at # None
        <4>1. run[q].at \in Workloads /\ Shut(run[q])
          BY <1>0, <3>3 DEF Call
        <4>2. run'[q].wcur => run[q].wcur /\ tmpl'[run[q].at] = tmpl[run[q].at]
          <5>1. CASE run' = [run EXCEPT ![p] = Handled(p, n)] /\ UNCHANGED tmpl
            BY <1>0, <5>1
          <5>2. CASE run' = [q0 \in Prs |-> IF q0 = p THEN Handled(p, n)
                                           ELSE Outdated(q0, run[p].at)]
            <6>1. run'[q] = Outdated(q, run[p].at)
              BY <5>2
            <6> QED
              BY <2>2, <2>5, <4>1, <6>1
          <5> QED
            BY <2>4, <5>1, <5>2
        <4> QED
          BY <3>1, <4>1, <4>2 DEF Handles, Holds, Shut
      <3> QED
        BY <3>2, <3>3
    <2> QED
      BY <2>6, <2>7
  <1>7. CASE EndApply(p)
    BY <1>0, <1>7 DEF EndApply, Handles, Holds, Shut, Call
  <1>8. CASE Finish(p)
    <2> DEFINE obj  == Phased(p, "Completed")
               goon == GoOn(p, obj, "return")
               then == [goon EXCEPT !.recs = NoRecs]
    <2>1. goon \in Call /\ goon.at = run[p].at /\ goon.wcur = run[p].wcur /\ goon.pc = "return"
      <3>1. "Completed" \in Phases /\ "return" \in Steps
        BY DEF Phases, Steps
      <3>2. obj \in Object /\ goon \in Call
        BY <1>0, <3>1, PhasedTyped, GoOnTyped
      <3> QED
        BY <1>0, <3>2 DEF GoOn, Call
    <2>2. UpdatePhase(p, obj, then) /\ run[p].pc = "finish"
      BY <1>8 DEF Finish
    <2> HIDE DEF obj, goon
    <2>3. then \in Call /\ then.at = run[p].at /\ then.wcur = run[p].wcur /\ then.pc = "return"
      BY <2>1 DEF Call, NoRecs
    <2> HIDE DEF then
    <2>4. Shut(then)
      BY <1>0, <2>2, <2>3 DEF Shut
    <2> QED
      BY <2>2, <2>3, <2>4, UpdatePhaseHandles
  <1>9. CASE Return(p)
    BY <1>9, IdleTyped, IdleIsShut, OneCallHandles DEF Return
  <1> QED
    BY <1>1, <1>2, <1>3, <1>4, <1>5, <1>6, <1>7, <1>8, <1>9, <1>10, <1>11, <1>12 DEF Reconcile


\* Every step keeps a call's copy, drops it or takes the informer's.
LEMMA NextHandles ==
    ASSUME TypeInv, \A q \in Prs : Shut(run[q]), Next
    PROVE  \A q \in Prs : Handles(q)
  <1> USE DEF cluster
  <1>0. TypeOK /\ run \in [Prs -> Call] /\ \A q \in Prs : Shut(run[q])
    BY DEF TypeInv, TypeOK
  <1>1. ASSUME UNCHANGED <<run, tmpl>> PROVE \A q \in Prs : Handles(q)
    BY <1>0, <1>1 DEF Handles, Holds
  <1>2. ASSUME NEW p \in Prs, Take(p) PROVE \A q \in Prs : Handles(q)
    <2> DEFINE due   == ShouldRun(cache[p].spec.schedule, cache[p].last, clock)
               taken == [Idle EXCEPT !.obj = cache[p], !.cur = fresh[p],
                                     !.pc = IF due THEN "analyzing" ELSE "return"]
    <2>1. /\ taken.at = None
          /\ taken.pc = IF due THEN "analyzing" ELSE "return"
      BY IdleTyped, IdleIsShut DEF Call
    <2>2. run' = (IF p \notin cached THEN run ELSE [run EXCEPT ![p] = taken]) /\ UNCHANGED tmpl
      BY <1>2 DEF Take
    <2> HIDE DEF taken
    <2> QED
      BY <1>0, <2>1, <2>2 DEF Handles, Drops, Holds, Shut
  <1>3. ASSUME NEW p \in Prs, EditSpec(p) \/ Delete(p) PROVE \A q \in Prs : Handles(q)
    <2>1. run' = [run EXCEPT ![p].cur = FALSE] /\ UNCHANGED tmpl
      BY <1>3 DEF EditSpec, Delete
    <2> QED
      BY <1>0, <2>1 DEF Handles, Holds, Shut, Call
  <1>4. ASSUME NEW w \in Workloads, EditTemplate(w) PROVE \A q \in Prs : Handles(q)
    <2>1. \A q \in Prs : /\ run'[q].at = run[q].at /\ run'[q].pc = run[q].pc
                         /\ run'[q].wcur => run[q].wcur /\ run[q].at # w
      BY <1>0, <1>4 DEF EditTemplate, Outdated, Call
    <2>2. \A u : u # w => tmpl'[u] = tmpl[u]
      BY <1>4, <1>0 DEF EditTemplate, Resized, TypeOK
    <2> QED
      BY <1>0, <2>1, <2>2 DEF Handles, Holds, Shut
  <1>5. CASE Restart
    BY <1>5, IdleIsShut DEF Restart, Handles, Drops, Shut
  <1> QED
    BY <1>1, <1>2, <1>3, <1>4, <1>5, ReconcileHandles
    DEF Next, Others, Tick, WakeUp, SyncPrs, SyncWorkload, Scale, PodEvent

\* A template changes by a user, or by a call whose copy is the newest; either
\* way the informer's copy is old.
LEMMA TemplateChanges ==
    ASSUME TypeInv, Next, NEW w \in Workloads, tmpl'[w] # tmpl[w]
    PROVE  /\ ~wlFresh'[w]
           /\ edits' # edits \/ \E p \in Prs : run[p].at = w /\ run[p].wcur /\ run'[p].at = None
  <1> USE DEF cluster
  <1>0. TypeOK /\ run \in [Prs -> Call] /\ edits \in Nat
    BY DEF TypeInv, TypeOK
  <1>1. CASE \E u \in Workloads : EditTemplate(u)
    BY <1>0, <1>1 DEF EditTemplate, Resized, Edited, TypeOK
  <1>2. ASSUME NEW p \in Prs, UpdateWorkload(p)
        PROVE  ~wlFresh'[w] /\ run[p].at = w /\ run[p].wcur /\ run'[p].at = None
    <2>1. Resized(run[p].at, run[p].recs[run[p].at]) /\ run[p].wcur
      BY <1>2 DEF UpdateWorkload, Accepted
    <2>2. run[p].at = w /\ ~wlFresh'[w]
      BY <1>0, <2>1 DEF Resized, TypeOK
    <2>3. \A n : Handled(p, n).at = None
      BY <1>0 DEF Handled, Call
    <2>4. PICK n : run'[p] = Handled(p, n)
      BY <1>0, <1>2 DEF UpdateWorkload
    <2> QED
      BY <2>1, <2>2, <2>3, <2>4
  <1>3. (\E u \in Workloads : EditTemplate(u)) \/ (\E p \in Prs : UpdateWorkload(p))
    BY DEF Next, Others, Tick, WakeUp, SyncPrs, Take, Reconcile, WriteAnalyzing, Discover,
           WriteError, WriteNoPods, WriteRecommending, Generate, Claim, GetWorkload, EndApply,
           Finish, Return, UpdatePhase, SyncWorkload, EditSpec, Delete, Scale, PodEvent, Restart
  <1> QED
    BY <1>1, <1>2, <1>3

\* What is believed to be the newest version of a workload has missed nothing.
VersionsAgree ==
    /\ lag \in [Workloads -> Nat] /\ behind \in [Prs -> Nat]
    /\ \A w \in Workloads : wlFresh[w] => lag[w] = 0
    /\ \A p \in Prs : Shut(run[p]) /\ (run[p].at # None /\ run[p].wcur => behind[p] = 0)

LEMMA VersionsStayInAgreement ==
    ASSUME TypeInv, VersionsAgree, [NextSeen]_<<vars, seen>>
    PROVE  VersionsAgree'
  <1>0. /\ run \in [Prs -> Call] /\ wlFresh \in [Workloads -> BOOLEAN]
        /\ lag \in [Workloads -> Nat] /\ behind \in [Prs -> Nat]
    BY DEF TypeInv, TypeOK, VersionsAgree
  <1>1. CASE UNCHANGED <<vars, seen>>
    BY <1>1 DEF vars, seen, VersionsAgree, Shut
  <1>2. CASE NextSeen
    <2>0. \A w : Changes(w) \in Nat /\ (Changes(w) = 0 <=> tmpl'[w] = tmpl[w])
      BY DEF Changes
    <2>1. Next
      BY <1>2 DEF NextSeen
    <2>2. \A q \in Prs : Handles(q)
      BY <2>1, NextHandles DEF VersionsAgree
    <2>3. TypeInv'
      BY <2>1, NextTyped
    <2>4. \A q \in Prs : run'[q].at \in Workloads \cup {None} /\ run[q].at \in Workloads \cup {None}
      BY <1>0, <2>3 DEF TypeInv, TypeOK, Call
    <2>5. ASSUME NEW w \in Workloads PROVE lag'[w] \in Nat /\ (wlFresh'[w] => lag'[w] = 0)
      <3>1. lag'[w] = IF ~wlFresh[w] /\ wlFresh'[w] THEN 0 ELSE lag[w] + Changes(w)
        BY <1>2 DEF NextSeen
      <3>2. wlFresh'[w] => tmpl'[w] = tmpl[w]
        BY <2>1, TemplateChanges
      <3> QED
        BY <1>0, <2>0, <3>1, <3>2 DEF VersionsAgree
    <2>6. ASSUME NEW q \in Prs
          PROVE  behind'[q] \in Nat /\ (run'[q].at # None /\ run'[q].wcur => behind'[q] = 0)
      <3>1. CASE run'[q].at = None
        BY <1>2, <3>1 DEF NextSeen
      <3>2. CASE run'[q].at # None /\ run[q].at = None
        <4>1. behind'[q] = lag[run'[q].at] /\ run'[q].at \in Workloads
          BY <1>2, <2>4, <3>2 DEF NextSeen
        <4>2. run'[q].wcur => wlFresh[run'[q].at]
          BY <2>2, <3>2 DEF Handles, Drops, Reads, Holds
        <4> QED
          BY <1>0, <4>1, <4>2 DEF VersionsAgree
      <3>3. CASE run'[q].at # None /\ run[q].at # None
        <4>1. behind'[q] = behind[q] + Changes(run[q].at)
          BY <1>2, <3>3 DEF NextSeen
        <4>2. run'[q].wcur => run[q].wcur /\ tmpl'[run[q].at] = tmpl[run[q].at]
          BY <2>2, <3>3 DEF Handles, Drops, Reads, Holds
        <4> QED
          BY <1>0, <2>0, <3>3, <4>1, <4>2 DEF VersionsAgree
      <3> QED
        BY <3>1, <3>2, <3>3
    <2>7. lag' \in [Workloads -> Nat] /\ behind' \in [Prs -> Nat]
      BY <1>2, <2>5, <2>6 DEF NextSeen
    <2> QED
      BY <2>2, <2>5, <2>6, <2>7 DEF VersionsAgree, Handles
  <1> QED
    BY <1>1, <1>2

\* No update of a workload is lost: the controller changes a template only at
\* the version it has read, for any number of resources, workers, users and
\* faults (updateDeployment and its siblings, lines 681-746).
THEOREM NoUpdateLost == SpecSeen => UpdatesHoldNewest
  <1> DEFINE HoldNewest ==
               \A w \in Workloads : tmpl'[w] # tmpl[w] /\ edits' = edits =>
                 \E p \in Prs : run[p].at = w /\ run'[p].at = None /\ behind[p] = 0
  <1>1. InitSeen => Init /\ VersionsAgree
    <2> SUFFICES ASSUME InitSeen PROVE Init /\ VersionsAgree
      OBVIOUS
    <2>1. \A p \in Prs : run[p] = Idle
      BY DEF InitSeen, Init
    <2> QED
      BY <2>1, IdleIsShut DEF InitSeen, VersionsAgree
  <1>2. [NextSeen]_<<vars, seen>> => [Next]_vars
    BY DEF NextSeen
  <1>3. TypeInv /\ VersionsAgree /\ [NextSeen]_<<vars, seen>> => VersionsAgree'
    BY VersionsStayInAgreement
  <1>4. TypeInv /\ VersionsAgree /\ [NextSeen]_<<vars, seen>> => [HoldNewest]_<<vars, seen>>
    <2> SUFFICES ASSUME TypeInv, VersionsAgree, NextSeen, NEW w \in Workloads,
                        tmpl'[w] # tmpl[w], edits' = edits
                 PROVE  \E p \in Prs : run[p].at = w /\ run'[p].at = None /\ behind[p] = 0
      OBVIOUS
    <2>1. PICK p \in Prs : run[p].at = w /\ run[p].wcur /\ run'[p].at = None
      BY TemplateChanges DEF NextSeen
    <2>2. w # None
      BY ReconcilerAssumption
    <2> QED
      BY <2>1, <2>2 DEF VersionsAgree
  <1>5. SpecSeen => Spec
    BY <1>1, <1>2, PTL DEF SpecSeen, Spec
  <1>6. SpecSeen => [](TypeInv /\ VersionsAgree)
    BY <1>1, <1>3, <1>5, TypeInvariant, PTL DEF SpecSeen
  <1> QED
    BY <1>4, <1>6, PTL DEF SpecSeen, UpdatesHoldNewest

=============================================================================
