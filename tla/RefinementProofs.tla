-------------------------- MODULE RefinementProofs --------------------------
(***************************************************************************)
(* Proof that the controller implements AnalysisSlots: what it promises to *)
(* the owners of workloads holds whatever queues, caches, conflicts, lost  *)
(* answers and restarts do.  Steps of the controller either record an      *)
(* analysis, use a grant, give grants up, or change nothing of the promise.*)
(***************************************************************************)
EXTENDS ClaimProofs

\* The abstract state, as the refinement mapping gives it.
SpecOf   == [p \in Prs |-> api[p].spec]
LastOf   == [p \in Prs |-> api[p].last]
GrantOf  == [p \in Prs |-> Granted(p)]

\* Both modules mean the same by a schedule.
LEMMA SameSchedule ==
    ASSUME NEW s, NEW last, NEW now
    PROVE  Slots!ShouldRun(s, last, now) <=> ShouldRun(s, last, now)
  <1> DEFINE later == {f \in Fires[s] : f > last}
  <1>1. Slots!Min(later) = Min(later)
    BY DEF Slots!Min, Min
  <1> HIDE DEF later
  <1>2. CronNext(s, last) = IF later = {} THEN 0 ELSE Min(later)
    BY DEF CronNext, ZeroTime, later
  <1>3. Slots!CronNext(s, last) = IF later = {} THEN 0 ELSE Slots!Min(later)
    BY DEF Slots!CronNext, Slots!ZeroTime, later
  <1>4. Slots!CronNext(s, last) = CronNext(s, last)
    BY <1>1, <1>2, <1>3
  <1> QED
    BY <1>4 DEF Slots!ShouldRun, ShouldRun, Slots!Never, Never

LEMMA GrantedTyped == \A p \in Prs : Granted(p) \in SUBSET Workloads
  BY DEF Granted

\* Calls that do not apply have nothing granted.
LEMMA NothingGranted ==
    ASSUME NEW p \in Prs, run[p].pc \notin {"apply", "update"}
    PROVE  Granted(p) = {}
  BY DEF Granted

\* Grants that disappear are given up.
LEMMA GivenUp ==
    ASSUME UNCHANGED <<clock, tmpl, edits>>,
           \A q \in Prs : /\ api'[q].spec = api[q].spec /\ api'[q].last = api[q].last
                          /\ Granted(q)' \subseteq Granted(q)
    PROVE  Slots!Next
  <1>1. UNCHANGED <<SpecOf, LastOf>>
    BY DEF SpecOf, LastOf
  <1>2. GrantOf' \in [Prs -> SUBSET Workloads] /\ \A p \in Prs : GrantOf'[p] \subseteq GrantOf[p]
    BY GrantedTyped DEF GrantOf
  <1>3. Slots!GiveUp
    BY <1>1, <1>2 DEF Slots!GiveUp, SpecOf, LastOf, GrantOf
  <1> QED
    BY <1>3 DEF Slots!Next

\* An update of the status records an analysis, or changes nothing of the promise.
LEMMA UpdatePhaseRefines ==
    ASSUME Inv, Inv', NEW p \in Prs, NEW obj \in Object, NEW then \in Call,
           UpdatePhase(p, obj, then),
           obj.spec = run[p].obj.spec, obj.last = run[p].obj.last, then.obj = obj,
           run[p].pc \notin {"apply", "update"},
           then.pc \in {"apply", "update"} => run[p].pc = "claim"
    PROVE  Slots!Next
  <1>0. /\ run \in [Prs -> Call] /\ api \in [Prs -> Object] /\ clock \in Nat \ {0}
        /\ CallAgrees(p) /\ Granted(p) = {}
    BY Typed, NothingGranted DEF CopiesAgree
  <1>1. UNCHANGED <<clock, tmpl, edits>>
    BY DEF UpdatePhase, cluster
  <1>2. \A q \in Prs \ {p} : run'[q] = run[q] /\ api'[q] = api[q]
    BY <1>0 DEF UpdatePhase, Retry, Stored
  <1>3. \A q \in Prs \ {p} : Granted(q)' = Granted(q)
    BY <1>2 DEF Granted
  <1>4. CASE run'[p] = Idle /\ UNCHANGED api
    <2>1. Granted(p)' = {}
      BY <1>4, IdleIsOld DEF Granted
    <2> QED
      BY <1>1, <1>3, <1>4, <2>1, GivenUp
  <1>5. CASE run[p].cur /\ Stored(p, obj) /\ run'[p] \in {then, Idle}
    <2>1. /\ api' = [api EXCEPT ![p] = api'[p]]
          /\ api'[p].spec = api[p].spec /\ api'[p].last = obj.last
      BY <1>0, <1>5 DEF Stored, Object
    <2>2. CASE Recording(p)
      <3>1. obj.last \in 1..clock /\ ShouldRun(api[p].spec.schedule, api[p].last, obj.last)
        BY <1>0, <1>5, <2>2 DEF CallAgrees
      <3>2. /\ Granted(p)' \in SUBSET Targets[p]
            /\ Slots!Applies(api[p].spec) \/ Granted(p)' = {}
        <4>1. CASE run'[p] = Idle
          BY <4>1, IdleIsOld DEF Granted
        <4>2. CASE run'[p] = then
          <5>1. Recommended(p, then) /\ then.obj.spec = api[p].spec
            BY <1>0, <1>5, <4>2, Typed DEF Inv, TypeInv, OnlyRecommended, CallAgrees
          <5> QED
            BY <4>2, <5>1 DEF Granted, Recommended, Slots!Applies
        <4> QED
          BY <1>5, <4>1, <4>2
      <3>3. /\ SpecOf' = SpecOf /\ LastOf' = [LastOf EXCEPT ![p] = obj.last]
            /\ GrantOf' = [GrantOf EXCEPT ![p] = Granted(p)'] /\ GrantOf[p] = {}
        BY <1>0, <1>2, <1>3, <2>1 DEF SpecOf, LastOf, GrantOf
      <3>4. /\ Slots!ShouldRun(SpecOf[p].schedule, LastOf[p], obj.last)
            /\ Slots!Applies(SpecOf[p]) \/ Granted(p)' = {}
        BY <3>1, <3>2, SameSchedule DEF SpecOf, LastOf
      <3> DEFINE granted == Granted(p)'
      <3> HIDE DEF granted
      <3>5. Slots!Record(p)
        BY <1>1, <3>1, <3>2, <3>3, <3>4 DEF Slots!Record, SpecOf, LastOf, GrantOf, granted
      <3> QED
        BY <3>5 DEF Slots!Next
    <2>3. CASE ~Recording(p)
      <3>1. api'[p].last = api[p].last
        BY <1>0, <1>5, <2>1, <2>3 DEF CallAgrees
      <3>2. Granted(p)' = {}
        BY <1>5, <2>3, IdleIsOld DEF Granted, Recording
      <3> QED
        BY <1>1, <1>2, <1>3, <2>1, <3>1, <3>2, GivenUp
    <2> QED
      BY <2>2, <2>3
  <1> QED
    BY <1>0, <1>4, <1>5 DEF UpdatePhase, Retry

\* One call of Reconcile: its status updates, its changes of workloads, the rest.
LEMMA ReconcileRefines ==
    ASSUME Inv, Inv', NEW p \in Prs, Reconcile(p)
    PROVE  Slots!Next
  <1> USE DEF store, cluster
  <1>0. /\ TypeOK /\ Recommended(p, run[p])
        /\ run \in [Prs -> Call] /\ run[p] \in Call /\ run[p].obj \in Object
        /\ api \in [Prs -> Object] /\ clock \in Nat \ {0}
    BY Typed, CallTyped DEF OnlyRecommended
  <1>1. ASSUME NEW phase \in Phases, NEW pc \in {"discover", "return", "generate", "apply"},
               run[p].pc \notin {"apply", "update"}, pc = "apply" => run[p].pc = "claim",
               UpdatePhase(p, Phased(p, phase), GoOn(p, Phased(p, phase), pc))
        PROVE  Slots!Next
    <2> DEFINE obj  == Phased(p, phase)
               then == GoOn(p, obj, pc)
    <2>1. /\ obj \in Object /\ then \in Call
          /\ obj.spec = run[p].obj.spec /\ obj.last = run[p].obj.last
          /\ then.obj = obj /\ then.pc = pc
      BY PhasedKeeps DEF Steps
    <2>2. UpdatePhase(p, obj, then)
      BY <1>1
    <2> HIDE DEF obj, then
    <2> QED
      BY <1>1, <2>1, <2>2, UpdatePhaseRefines
  \* A step of p's call that changes no template and grants nothing.
  <1>2. ASSUME UNCHANGED <<clock, tmpl, edits, api>>,
               \A q \in Prs \ {p} : run'[q] = run[q],
               Granted(p)' \subseteq Granted(p)
        PROVE  Slots!Next
    <2>1. \A q \in Prs \ {p} : Granted(q)' = Granted(q)
      BY <1>2 DEF Granted
    <2> QED
      BY <1>2, <2>1, GivenUp
  <1>3. CASE WriteAnalyzing(p)
    BY <1>1, <1>3 DEF WriteAnalyzing, Phases
  <1>4. CASE Discover(p)
    <2>1. run'[p].pc \in {"failed", "empty", "recommending"}
      BY <1>0, <1>4 DEF Discover, Call
    <2>2. Granted(p)' = {} /\ \A q \in Prs \ {p} : run'[q] = run[q]
      BY <1>0, <1>4, <2>1 DEF Discover, Granted
    <2> QED
      BY <1>2, <1>4, <2>2 DEF Discover
  <1>5. CASE WriteError(p)
    <2>1. run'[p] = Idle /\ UNCHANGED <<clock, tmpl, edits>>
      BY <1>0, <1>5 DEF WriteError, Retry
    <2>2. \A q \in Prs \ {p} : run'[q] = run[q] /\ api'[q] = api[q]
      BY <1>0, <1>5 DEF WriteError, Retry, Stored
    <2>3. \A q \in Prs \ {p} : Granted(q)' = Granted(q)
      BY <2>2 DEF Granted
    <2>4. Granted(p)' = {}
      BY <2>1, IdleIsOld DEF Granted
    <2>5. api'[p].spec = api[p].spec /\ api'[p].last = api[p].last
      <3>1. CASE run[p].cur /\ Stored(p, Phased(p, "Error"))
        <4>1. run[p].obj.last = api[p].last
          BY <1>5, <3>1, Typed DEF WriteError, CopiesAgree, CallAgrees, Recording
        <4>2. Phased(p, "Error").last = run[p].obj.last /\ Phased(p, "Error") \in Object
          BY <1>0 DEF Phased, Object, Phases
        <4> QED
          BY <1>0, <3>1, <4>1, <4>2 DEF Stored, Object
      <3> QED
        BY <1>5, <3>1 DEF WriteError
    <2> QED
      BY <2>1, <2>2, <2>3, <2>4, <2>5, GivenUp
  <1>6. CASE WriteNoPods(p)
    BY <1>1, <1>6 DEF WriteNoPods, Phases
  <1>7. CASE WriteRecommending(p)
    BY <1>1, <1>7 DEF WriteRecommending, Phases
  <1>8. CASE Generate(p)
    <2>1. run'[p].pc \in {"finish", "claim"} /\ \A q \in Prs \ {p} : run'[q] = run[q]
      BY <1>0, <1>8 DEF Generate, Call
    <2>2. Granted(p)' = {}
      BY <2>1 DEF Granted
    <2> QED
      BY <1>2, <1>8, <2>1, <2>2 DEF Generate
  <1>9. CASE Claim(p)
    BY <1>1, <1>9 DEF Claim, Phases
  <1>10. ASSUME NEW w \in Workloads, GetWorkload(p, w) PROVE Slots!Next
    <2> DEFINE dropped == [run[p] EXCEPT !.recs = [@ EXCEPT ![w] = None]]
               opened  == [run[p] EXCEPT !.at = w, !.wcur = wlFresh[w], !.pc = "update"]
    <2>1. PICK call \in {dropped, opened} : run' = [run EXCEPT ![p] = call]
      BY <1>0, <1>10 DEF GetWorkload, Call
    <2>2. call.obj = run[p].obj /\ call.pc \in {"apply", "update"}
          /\ \A x \in Workloads : call.recs[x] \in {run[p].recs[x], None}
      BY <1>0, <1>10, <2>1 DEF GetWorkload, Call
    <2>3. run[p].pc = "apply" /\ run'[p] = call /\ \A q \in Prs \ {p} : run'[q] = run[q]
      BY <1>0, <1>10, <2>1 DEF GetWorkload
    <2> HIDE DEF dropped, opened
    <2>4. Granted(p)' \subseteq Granted(p)
      BY <2>2, <2>3 DEF Granted
    <2> QED
      BY <1>2, <1>10, <2>3, <2>4 DEF GetWorkload
  <1>11. CASE UpdateWorkload(p)
    <2> DEFINE w == run[p].at
               v == run[p].recs[w]
    <2>1. /\ w \in Workloads /\ v \in Values /\ w \in Granted(p)
          /\ run[p].pc = "update" /\ UNCHANGED <<clock, edits, api>>
      BY <1>0, <1>11 DEF UpdateWorkload, Recommended, Granted, Call
    <2>2. ASSUME NEW n \in Nat
          PROVE  /\ Handled(p, n).obj = run[p].obj /\ Handled(p, n).pc = "apply"
                 /\ Handled(p, n).recs = [run[p].recs EXCEPT ![w] = None]
      BY <1>0 DEF Handled, Call
    <2>3. \A q \in Prs : Outdated(q, w).obj = run[q].obj /\ Outdated(q, w).pc = run[q].pc
                         /\ Outdated(q, w).recs = run[q].recs
      BY <1>0 DEF Outdated, Call
    <2>4. run[p].count \in Nat /\ run[p].count + 1 \in Nat
      BY <1>0 DEF Call
    <2>5. PICK n \in Nat :
            \/ run' = [q \in Prs |-> IF q = p THEN Handled(p, n) ELSE Outdated(q, w)]
            \/ run' = [run EXCEPT ![p] = Handled(p, n)]
      BY <1>11, <2>4 DEF UpdateWorkload
    <2>6. \A q \in Prs \ {p} : run'[q].obj = run[q].obj /\ run'[q].pc = run[q].pc
                               /\ run'[q].recs = run[q].recs
      BY <1>0, <2>3, <2>5
    <2>7. /\ run'[p].obj = run[p].obj /\ run'[p].pc = "apply"
          /\ run'[p].recs = [run[p].recs EXCEPT ![w] = None]
      BY <1>0, <2>2, <2>5
    <2>8. \A q \in Prs \ {p} : Granted(q)' = Granted(q)
      BY <2>6 DEF Granted
    <2>9. Granted(p)' = Granted(p) \ {w}
      <3>1. run[p].recs \in [Workloads -> Values \cup {None}]
        BY <1>0 DEF Call
      <3> HIDE DEF w, v
      <3>2. \A x \in Workloads : run'[p].recs[x] = IF x = w THEN None ELSE run[p].recs[x]
        BY <2>7, <3>1
      <3> QED
        BY <2>1, <2>7, <3>2 DEF Granted
    <2>10. UNCHANGED tmpl \/ tmpl' = [tmpl EXCEPT ![w] = v]
      BY <1>11 DEF UpdateWorkload, Resized
    <2> HIDE DEF w, v
    <2>11. CASE UNCHANGED tmpl
      BY <2>1, <2>8, <2>9, <2>11, GivenUp
    <2>12. CASE tmpl' = [tmpl EXCEPT ![w] = v]
      <3>1. SpecOf' = SpecOf /\ LastOf' = LastOf
        BY <2>1 DEF SpecOf, LastOf
      <3>2. GrantOf' = [GrantOf EXCEPT ![p] = @ \ {w}] /\ w \in GrantOf[p]
        BY <2>1, <2>8, <2>9 DEF GrantOf
      <3>3. Slots!Resize(p, w)
        BY <2>1, <2>12, <3>1, <3>2 DEF Slots!Resize, SpecOf, LastOf, GrantOf
      <3> QED
        BY <2>1, <3>3 DEF Slots!Next
    <2> QED
      BY <2>10, <2>11, <2>12
  <1>12. CASE EndApply(p)
    <2>1. run'[p].pc = "finish" /\ \A q \in Prs \ {p} : run'[q] = run[q]
      BY <1>0, <1>12 DEF EndApply, Call
    <2>2. Granted(p)' = {}
      BY <2>1 DEF Granted
    <2> QED
      BY <1>2, <1>12, <2>1, <2>2 DEF EndApply
  <1>13. CASE Finish(p)
    <2> DEFINE obj  == Phased(p, "Completed")
               goon == GoOn(p, obj, "return")
               then == [goon EXCEPT !.recs = NoRecs]
    <2>1. /\ obj \in Object /\ goon \in Call
          /\ obj.spec = run[p].obj.spec /\ obj.last = run[p].obj.last
          /\ goon.obj = obj /\ goon.pc = "return"
      <3>1. "Completed" \in Phases /\ "return" \in Steps
        BY DEF Phases, Steps
      <3> QED
        BY <3>1, PhasedKeeps
    <2>2. UpdatePhase(p, obj, then) /\ run[p].pc = "finish"
      BY <1>13 DEF Finish
    <2> HIDE DEF obj, goon
    <2>3. then \in Call /\ then.obj = obj /\ then.pc = "return"
      BY <2>1 DEF Call, NoRecs
    <2> HIDE DEF then
    <2> QED
      BY <2>1, <2>2, <2>3, UpdatePhaseRefines
  <1>14. CASE Return(p)
    <2>1. run'[p] = Idle /\ \A q \in Prs \ {p} : run'[q] = run[q]
      BY <1>0, <1>14 DEF Return
    <2>2. Granted(p)' = {}
      BY <2>1, IdleIsOld DEF Granted
    <2> QED
      BY <1>2, <1>14, <2>1, <2>2 DEF Return
  <1> QED
    BY <1>3, <1>4, <1>5, <1>6, <1>7, <1>8, <1>9, <1>10, <1>11, <1>12, <1>13, <1>14
       DEF Reconcile

\* What users and the rest of the cluster do is an edit of the promise's world.
LEMMA OthersRefine ==
    ASSUME Inv, Others
    PROVE  Slots!Next
  <1> USE DEF store, cluster
  <1>0. /\ run \in [Prs -> Call] /\ api \in [Prs -> Object] /\ tmpl \in [Workloads -> Values]
    BY Typed DEF TypeOK
  <1>1. ASSUME NEW p \in Prs, NEW s \in Specs, UNCHANGED <<clock, tmpl>>, edits' = edits + 1,
               SpecOf' = [SpecOf EXCEPT ![p] = s], LastOf' = LastOf,
               \A q \in Prs : Granted(q)' = Granted(q)
        PROVE  Slots!Next
    <2>1. GrantOf' = GrantOf
      BY <1>1 DEF GrantOf
    <2>2. Slots!Respecify(p)
      BY <1>1, <2>1 DEF Slots!Respecify, SpecOf, LastOf, GrantOf
    <2> QED
      BY <2>2 DEF Slots!Next
  <1>2. ASSUME NEW w \in Workloads, NEW v \in Values, UNCHANGED <<clock, api>>,
               edits' = edits + 1, tmpl' = [tmpl EXCEPT ![w] = v],
               \A q \in Prs : Granted(q)' = Granted(q)
        PROVE  Slots!Next
    <2>1. SpecOf' = SpecOf /\ LastOf' = LastOf /\ GrantOf' = GrantOf
      BY <1>2 DEF SpecOf, LastOf, GrantOf
    <2>2. Slots!OwnerEdits(w)
      BY <1>2, <2>1 DEF Slots!OwnerEdits, SpecOf, LastOf, GrantOf
    <2> QED
      BY <2>2 DEF Slots!Next
  \* A copy that turns old changes no grant.
  <1>3. ASSUME \A q \in Prs : /\ run'[q].obj = run[q].obj /\ run'[q].pc = run[q].pc
                              /\ run'[q].recs = run[q].recs
        PROVE  \A q \in Prs : Granted(q)' = Granted(q)
    BY <1>3 DEF Granted
  <1>4. ASSUME NEW p \in Prs, EditSpec(p) PROVE Slots!Next
    <2>1. PICK s \in Specs : api' = [api EXCEPT ![p] = [@ EXCEPT !.spec = s]]
      BY <1>4 DEF EditSpec
    <2>2. SpecOf' = [SpecOf EXCEPT ![p] = s] /\ LastOf' = LastOf
      BY <1>0, <2>1 DEF SpecOf, LastOf, Object
    <2>3. \A q \in Prs : /\ run'[q].obj = run[q].obj /\ run'[q].pc = run[q].pc
                         /\ run'[q].recs = run[q].recs
      BY <1>0, <1>4 DEF EditSpec, Call
    <2> QED
      BY <1>1, <1>3, <1>4, <2>2, <2>3 DEF EditSpec, Edited
  <1>5. ASSUME NEW p \in Prs, Delete(p) PROVE Slots!Next
    <2>1. api[p].spec \in Specs
      BY <1>0 DEF Object
    <2>2. SpecOf' = [SpecOf EXCEPT ![p] = api[p].spec] /\ LastOf' = LastOf
      BY <1>5 DEF Delete, SpecOf, LastOf
    <2>3. \A q \in Prs : /\ run'[q].obj = run[q].obj /\ run'[q].pc = run[q].pc
                         /\ run'[q].recs = run[q].recs
      BY <1>0, <1>5 DEF Delete, Call
    <2> QED
      BY <1>1, <1>3, <1>5, <2>1, <2>2, <2>3 DEF Delete, Edited
  <1>6. ASSUME NEW w \in Workloads, EditTemplate(w) PROVE Slots!Next
    <2>1. PICK v \in Values : tmpl' = [tmpl EXCEPT ![w] = v]
      BY <1>6 DEF EditTemplate, Resized
    <2>2. \A q \in Prs : /\ run'[q].obj = run[q].obj /\ run'[q].pc = run[q].pc
                         /\ run'[q].recs = run[q].recs
      BY <1>0, <1>6 DEF EditTemplate, Outdated, Call
    <2> QED
      BY <1>2, <1>3, <1>6, <2>1, <2>2 DEF EditTemplate, Edited
  <1>7. ASSUME NEW w \in Workloads, Scale(w) \/ PodEvent(w) PROVE Slots!Next
    <2>1. tmpl' = [tmpl EXCEPT ![w] = tmpl[w]] /\ tmpl[w] \in Values
      BY <1>0, <1>7 DEF Scale, PodEvent
    <2>2. UNCHANGED <<clock, api, run>> /\ edits' = edits + 1
      BY <1>7 DEF Scale, PodEvent, Edited
    <2> QED
      BY <1>2, <1>3, <2>1, <2>2
  <1> QED
    BY <1>4, <1>5, <1>6, <1>7 DEF Others

\* The controller keeps its promise to the owners of workloads: every behaviour of
\* Reconciler is one of AnalysisSlots (lines 71-226 and 593-801).
THEOREM ImplementsAnalysisSlots == Spec => ImplementsSlots
  <1> USE DEF store, cluster
  <1>1. Init => Slots!Init
    <2> SUFFICES ASSUME Init PROVE Slots!Init
      OBVIOUS
    <2>1. PICK spec \in [Prs -> Specs] : api = [p \in Prs |-> New(spec[p])]
      BY DEF Init
    <2>2. \A p \in Prs : api[p].spec = spec[p] /\ api[p].last = 0
      BY <2>1 DEF New, Never
    <2>3. \A p \in Prs : Granted(p) = {}
      BY IdleIsOld DEF Init, Granted
    <2> QED
      BY <2>2, <2>3 DEF Init, Slots!Init, Slots!Never
  <1>2. Inv /\ Inv' /\ [Next]_vars => [Slots!Next]_(Slots!vars)
    <2> SUFFICES ASSUME Inv, Inv', [Next]_vars
                 PROVE  Slots!Next \/ UNCHANGED Slots!vars
      OBVIOUS
    <2>0. /\ run \in [Prs -> Call] /\ api \in [Prs -> Object]
      BY Typed
    <2>1. CASE Tick
      <3>1. Slots!TimePasses
        BY <2>1 DEF Tick, Slots!TimePasses, Granted
      <3> QED
        BY <3>1 DEF Slots!Next
    <2>2. ASSUME UNCHANGED <<clock, api, tmpl, edits, run>> PROVE Slots!Next
      BY <2>2, GivenUp DEF Granted
    <2>3. ASSUME NEW p \in Prs, WakeUp(p) \/ SyncPrs(p) PROVE Slots!Next
      BY <2>2, <2>3 DEF WakeUp, SyncPrs
    <2>4. ASSUME NEW p \in Prs, Take(p) PROVE Slots!Next
      <3>1. CASE run' = run
        BY <2>2, <2>4, <3>1 DEF Take
      <3>2. CASE run' # run
        <4>1. run'[p].pc \in {"analyzing", "return"} /\ \A q \in Prs \ {p} : run'[q] = run[q]
          BY <2>0, <2>4, <3>2, IdleTyped DEF Take, Call
        <4>2. \A q \in Prs : Granted(q)' \subseteq Granted(q)
          BY <4>1 DEF Granted
        <4> QED
          BY <2>4, <4>2, GivenUp DEF Take
      <3> QED
        BY <3>1, <3>2
    <2>5. ASSUME NEW p \in Prs, Reconcile(p) PROVE Slots!Next
      BY <2>5, ReconcileRefines
    <2>6. ASSUME NEW w \in Workloads, SyncWorkload(w) PROVE Slots!Next
      BY <2>2, <2>6 DEF SyncWorkload
    <2>7. CASE Others
      BY <2>7, OthersRefine
    <2>8. CASE Restart
      <3>1. \A q \in Prs : Granted(q)' = {}
        BY <2>8, IdleIsOld DEF Restart, Granted
      <3> QED
        BY <2>8, <3>1, GivenUp DEF Restart
    <2>9. CASE UNCHANGED vars
      BY <2>2, <2>9 DEF vars
    <2> QED
      BY <2>1, <2>3, <2>4, <2>5, <2>6, <2>7, <2>8, <2>9 DEF Next
  <1>3. Spec => []Inv
    BY TypeInvariant, CopiesStayInAgreement, PTL DEF Inv
  <1> QED
    BY <1>1, <1>2, <1>3, PTL DEF Spec, ImplementsSlots, Slots!Spec
=============================================================================
