----------------------------- MODULE Reconciler -----------------------------
(***************************************************************************)
(* The PodRightSizing controller: Reconcile, the work queue that feeds it, *)
(* the informer caches it reads from, the API server it writes to, the     *)
(* users who edit the same objects, failed calls and operator restarts.    *)
(*                                                                         *)
(* The API server accepts an update only of the newest version of an       *)
(* object.  Versions are compared for equality and nothing else, so a copy *)
(* carries one bit: is it the newest version?  Every write that changes an *)
(* object makes all other copies of it old.  At most one worker handles a  *)
(* resource at a time (the work queue's promise), so the state of a call   *)
(* of Reconcile is indexed by the resource it is for.                      *)
(***************************************************************************)
EXTENDS Schedule, FiniteSets

CONSTANTS
    Prs,                \* the PodRightSizing resources
    Workloads,          \* the workloads of the cluster
    Kind,               \* Kind[w]: the workload type
    Targets,            \* Targets[p]: the workloads p's selector covers
    Specs,              \* the specs users give: [dryRun, strategy, schedule]
    Values,             \* container resources, as templates hold them
    None,               \* no workload, no recommendation
    Workers,            \* MaxConcurrentReconciles
    Prompt,             \* TRUE: no time passes between the two readings of the
                        \* clock in a call that skips, or that has finished
    MaxClock,           \* bound: the clock stops here
    MaxFaults,          \* bound: failed calls and restarts
    MaxEdits            \* bound: changes made by users and pod events

Strategies == {"immediate", "gradual", "manual"}

ASSUME ReconcilerAssumption ==
    /\ Kind \in [Workloads -> {"Deployment", "StatefulSet", "DaemonSet", "Job", "Pod"}]
    /\ Targets \in [Prs -> SUBSET Workloads]
    /\ Specs \subseteq [dryRun : BOOLEAN, strategy : Strategies, schedule : Schedules]
    /\ Specs # {}
    /\ None \notin Workloads \cup Values
    /\ Workers \in Nat \ {0}
    /\ Prompt \in BOOLEAN
    /\ MaxClock \in Nat /\ MaxFaults \in Nat /\ MaxEdits \in Nat

VARIABLES
    clock,
    api,        \* api[p]: the stored PodRightSizing
    alive,      \* the resources that have not been deleted
    cache,      \* cache[p]: the informer's copy of p
    cached,     \* the resources present in the informer's cache
    fresh,      \* fresh[p]: cache[p] is the newest version
    queue,      \* the work queue: resources ready to be reconciled
    wake,       \* wake[p]: when the delaying queue releases p
    run,        \* run[p]: the call of Reconcile in progress for p
    tmpl,       \* tmpl[w]: the resources in w's pod template
    wlFresh,    \* wlFresh[w]: the informer's copy of w is the newest
    running,    \* the workloads that have pods an analysis would include
    faults, edits

cluster == <<tmpl, wlFresh, running>>
store   == <<api, alive, fresh>>
vars    == <<clock, api, alive, cache, cached, fresh, queue, wake, run,
             tmpl, wlFresh, running, faults, edits>>

Phases  == {"", "Analyzing", "Recommending", "Updating", "Completed", "Error"}
Steps   == {"idle", "analyzing", "discover", "failed", "empty", "recommending",
            "generate", "claim", "apply", "update", "finish", "return"}
NoWake  == 0

\* updated stands for UpdatedPods and for LastUpdateTime, set beside it.
Object  == [spec : Specs, phase : Phases, last : Nat, updated : Nat]
New(s)  == [spec |-> s, phase |-> "", last |-> Never, updated |-> 0]

Call == [pc    : Steps,
         obj   : Object,                            \* the local copy of p
         cur   : BOOLEAN,                           \* it is the newest version
         found : SUBSET Workloads,                  \* groups of target pods
         recs  : [Workloads -> Values \cup {None}], \* still to be applied
         at    : Workloads \cup {None},             \* being updated
         wcur  : BOOLEAN,                           \* the copy of at is newest
         count : Nat]                               \* updatedCount

NoRecs == [w \in Workloads |-> None]
Idle == [pc |-> "idle", obj |-> New(CHOOSE s \in Specs : TRUE), cur |-> FALSE,
         found |-> {}, recs |-> NoRecs, at |-> None, wcur |-> FALSE, count |-> 0]

TypeOK ==
    /\ clock \in Nat \ {0}
    /\ api \in [Prs -> Object]
    /\ alive \subseteq Prs
    /\ cache \in [Prs -> Object]
    /\ cached \subseteq Prs
    /\ fresh \in [Prs -> BOOLEAN]
    /\ queue \subseteq Prs
    /\ wake \in [Prs -> Nat]
    /\ run \in [Prs -> Call]
    /\ tmpl \in [Workloads -> Values]
    /\ wlFresh \in [Workloads -> BOOLEAN]
    /\ running \subseteq Workloads
    /\ faults \in Nat
    /\ edits \in Nat

Init ==
    /\ clock = 1
    /\ \E spec \in [Prs -> Specs] : api = [p \in Prs |-> New(spec[p])]
    /\ alive = Prs
    /\ cache = api
    /\ cached = Prs
    /\ fresh = [p \in Prs |-> TRUE]
    /\ queue = Prs
    /\ wake = [p \in Prs |-> NoWake]
    /\ run = [p \in Prs |-> Idle]
    /\ tmpl \in [Workloads -> Values]
    /\ wlFresh = [w \in Workloads |-> TRUE]
    /\ running \in SUBSET Workloads
    /\ faults = 0
    /\ edits = 0

-----------------------------------------------------------------------------
(* The clock, the work queue and the informers.                            *)

Tick ==
    /\ clock < MaxClock
    /\ Prompt => \A p \in Prs : run[p].pc # "return"
    /\ clock' = clock + 1
    /\ UNCHANGED <<store, cache, cached, queue, wake, run, cluster, faults, edits>>

\* The delaying queue moves p to the work queue.
WakeUp(p) ==
    /\ wake[p] # NoWake
    /\ wake[p] <= clock
    /\ wake' = [wake EXCEPT ![p] = NoWake]
    /\ queue' = queue \cup {p}
    /\ UNCHANGED <<clock, store, cache, cached, run, cluster, faults, edits>>

\* Mutant: events of the status are filtered out (GenerationChangedPredicate).
SyncPrsSpecOnly(p) ==
    /\ ~fresh[p]
    /\ fresh' = [fresh EXCEPT ![p] = TRUE]
    /\ cache' = [cache EXCEPT ![p] = api[p]]
    /\ cached' = IF p \in alive THEN cached \cup {p} ELSE cached \ {p}
    /\ queue' = IF cache[p].spec = api[p].spec THEN queue ELSE queue \cup {p}
    /\ UNCHANGED <<clock, api, alive, wake, run, cluster, faults, edits>>

\* The informer catches up on p.  For() has no predicate: every event of the
\* resource, the controller's own status writes included, enqueues it.
SyncPrs(p) ==
    /\ ~fresh[p]
    /\ fresh' = [fresh EXCEPT ![p] = TRUE]
    /\ cache' = [cache EXCEPT ![p] = api[p]]
    /\ cached' = IF p \in alive THEN cached \cup {p} ELSE cached \ {p}
    /\ queue' = queue \cup {p}
    /\ UNCHANGED <<clock, api, alive, wake, run, cluster, faults, edits>>

\* The informer catches up on w.  Deployments alone are watched; the other
\* kinds are only cached.
SyncWorkload(w) ==
    /\ ~wlFresh[w]
    /\ wlFresh' = [wlFresh EXCEPT ![w] = TRUE]
    /\ queue' = IF Kind[w] = "Deployment"
                THEN queue \cup {p \in cached : w \in Targets[p]} ELSE queue
    /\ UNCHANGED <<clock, store, cache, cached, wake, run, tmpl, running, faults, edits>>

-----------------------------------------------------------------------------
(* Reconcile, one action per call it makes.                                *)

Busy == {p \in Prs : run[p].pc # "idle"}

\* A call reads the API server's answer: one that costs a fault, or not.
Faulty == faults < MaxFaults /\ faults' = faults + 1

\* Reconcile returns an error: the rate limited queue hands p out again.
Retry(p) ==
    /\ run' = [run EXCEPT ![p] = Idle]
    /\ queue' = queue \cup {p}

\* A worker takes p, reads it from the cache and asks whether it is due.
Take(p) ==
    /\ p \in queue
    /\ run[p].pc = "idle"
    /\ Cardinality(Busy) < Workers
    /\ queue' = queue \ {p}
    /\ run' = IF p \notin cached THEN run
              ELSE [run EXCEPT ![p] =
                     [Idle EXCEPT !.obj = cache[p], !.cur = fresh[p],
                                  !.pc = IF ShouldRun(cache[p].spec.schedule,
                                                      cache[p].last, clock)
                                         THEN "analyzing" ELSE "return"]]
    /\ UNCHANGED <<clock, store, cache, cached, wake, cluster, faults, edits>>

\* The API server stores the status of obj; the spec is not written.
Stored(p, obj) ==
    LET new == [obj EXCEPT !.spec = api[p].spec]
    IN  /\ api' = [api EXCEPT ![p] = new]
        /\ fresh' = [fresh EXCEPT ![p] = @ /\ new = api[p]]

\* Mutant: after a conflict the same status is written over the new version.
UpdatePhaseForced(p, obj, then) ==
    /\ Stored(p, obj)
    /\ run' = [run EXCEPT ![p] = [then EXCEPT !.cur = p \in alive]]
    /\ UNCHANGED <<clock, alive, cache, cached, queue, wake, cluster, faults, edits>>

\* updatePhase: Status().Update of the local copy.  It is refused when the
\* copy is old, and may fail before or after it took effect.  The call goes
\* on with `then` when it succeeded, and is retried otherwise.
UpdatePhase(p, obj, then) ==
    /\ \/ run[p].cur /\ Stored(p, obj) /\ UNCHANGED <<queue, faults>>
          /\ run' = [run EXCEPT ![p] = then]
       \/ run[p].cur /\ Stored(p, obj) /\ Retry(p) /\ Faulty
       \/ run[p].cur /\ Retry(p) /\ Faulty /\ UNCHANGED <<api, fresh>>
       \/ ~run[p].cur /\ Retry(p) /\ UNCHANGED <<api, fresh, faults>>
    /\ UNCHANGED <<clock, alive, cache, cached, wake, cluster, edits>>

\* The local copy with another phase, and the call that goes on with it.
Phased(p, phase)   == [run[p].obj EXCEPT !.phase = phase]
GoOn(p, obj, pc)   == [run[p] EXCEPT !.obj = obj, !.pc = pc]

WriteAnalyzing(p) ==
    LET obj == Phased(p, "Analyzing")
    IN  run[p].pc = "analyzing" /\ UpdatePhase(p, obj, GoOn(p, obj, "discover"))

\* Pods are listed and grouped by workload; a list may fail.
Discover(p) ==
    LET found == Targets[p] \cap running
    IN  /\ run[p].pc = "discover"
        /\ \/ /\ run' = [run EXCEPT ![p].found = found,
                                    ![p].pc = IF found = {} THEN "empty"
                                              ELSE "recommending"]
              /\ UNCHANGED faults
           \/ /\ run' = [run EXCEPT ![p].pc = "failed"]
              /\ Faulty
        /\ UNCHANGED <<clock, store, cache, cached, queue, wake, cluster, edits>>

\* The phase becomes Error if the write succeeds; the call fails either way.
WriteError(p) ==
    /\ run[p].pc = "failed"
    /\ Retry(p)
    /\ \/ run[p].cur /\ Stored(p, Phased(p, "Error")) /\ UNCHANGED faults
       \/ UNCHANGED <<api, fresh>> /\ IF run[p].cur THEN Faulty ELSE UNCHANGED faults
    /\ UNCHANGED <<clock, alive, cache, cached, wake, cluster, edits>>

\* Mutant: Reconcile returns before it writes that there are no pods.
WriteNoPodsNever(p) ==
    /\ run[p].pc = "empty"
    /\ run' = [run EXCEPT ![p].pc = "return"]
    /\ UNCHANGED <<clock, store, cache, cached, queue, wake, cluster, faults, edits>>

\* No pods: completed, and LastAnalysisTime stays as it was.
WriteNoPods(p) ==
    LET obj == Phased(p, "Completed")
    IN  run[p].pc = "empty" /\ UpdatePhase(p, obj, GoOn(p, obj, "return"))

WriteRecommending(p) ==
    LET obj == Phased(p, "Recommending")
    IN  run[p].pc = "recommending" /\ UpdatePhase(p, obj, GoOn(p, obj, "generate"))

\* Metrics are read and recommendations computed for each group; a group
\* whose metrics fail, are too few or recommend no sufficient change has none.
Generate(p) ==
    /\ run[p].pc = "generate"
    /\ \E some \in SUBSET run[p].found : \E value \in [some -> Values] :
         run' = [run EXCEPT ![p] =
                  [@ EXCEPT !.found = {},
                            !.obj.last = clock,
                            !.recs = [w \in Workloads |->
                                        IF w \in some THEN value[w] ELSE None],
                            !.pc = IF run[p].obj.spec.dryRun THEN "finish" ELSE "claim"]]
    /\ UNCHANGED <<clock, store, cache, cached, queue, wake, cluster, faults, edits>>

\* Phase Updating.  This write also stores the new LastAnalysisTime, so it
\* claims the schedule slot before any workload is touched.
Claim(p) ==
    LET obj == Phased(p, "Updating")
    IN  run[p].pc = "claim" /\ UpdatePhase(p, obj, GoOn(p, obj, "apply"))

Updatable(w) == Kind[w] \in {"Deployment", "StatefulSet", "DaemonSet"}

\* Mutant: the manual strategy is applied like the others.
GetWorkloadAlways(p, w) ==
    /\ run[p].pc = "apply"
    /\ run[p].recs[w] # None
    /\ run' = IF Updatable(w)
              THEN [run EXCEPT ![p].at = w, ![p].wcur = wlFresh[w], ![p].pc = "update"]
              ELSE [run EXCEPT ![p].recs[w] = None]
    /\ UNCHANGED <<clock, store, cache, cached, queue, wake, cluster, faults, edits>>

\* applyRecommendations reaches w, in map order; the manual strategy and the
\* other kinds end there.  The workload is read from the cache, or cannot be.
GetWorkload(p, w) ==
    /\ run[p].pc = "apply"
    /\ run[p].recs[w] # None
    /\ IF run[p].obj.spec.strategy = "manual" \/ ~Updatable(w)
       THEN run' = [run EXCEPT ![p].recs[w] = None] /\ UNCHANGED faults
       ELSE \/ /\ run' = [run EXCEPT ![p].at = w, ![p].wcur = wlFresh[w],
                                     ![p].pc = "update"]
               /\ UNCHANGED faults
            \/ run' = [run EXCEPT ![p].recs[w] = None] /\ Faulty
    /\ UNCHANGED <<clock, store, cache, cached, queue, wake, cluster, edits>>

\* Mutant: the recommendation is dropped, yet its update is tried once more.
HandledAgain(p, n) == [run[p] EXCEPT !.recs[run[p].at] = None, !.count = n]

\* Mutant: the recommendation is kept, and applied again.
HandledKept(p, n) ==
    [run[p] EXCEPT !.at = None, !.wcur = FALSE, !.pc = "apply", !.count = n]

\* The call of p moves on to the next recommendation.
Handled(p, n) ==
    [run[p] EXCEPT !.recs[run[p].at] = None, !.at = None, !.wcur = FALSE,
                   !.pc = "apply", !.count = n]

\* w gets new resources: every other copy of w is old.
Resized(w, v) ==
    /\ tmpl' = [tmpl EXCEPT ![w] = v]
    /\ wlFresh' = [wlFresh EXCEPT ![w] = FALSE]

Outdated(q, w) == [run[q] EXCEPT !.wcur = @ /\ run[q].at # w]

\* Mutant: the workload is patched, with no version in the request.
AcceptedAlways(p) == TRUE

\* The API server takes the update of a workload if the copy is the newest.
Accepted(p) == run[p].wcur

\* Every container gets the recommended resources and the workload is written,
\* unless they are equal already.  An old copy is refused, or has nothing to
\* change; a failed write may have taken effect.  No failure is retried.
UpdateWorkload(p) ==
    LET w == run[p].at
        v == run[p].recs[w]
    IN  /\ run[p].pc = "update"
        /\ \/ /\ Accepted(p) /\ tmpl[w] # v
              /\ Resized(w, v)
              /\ \/ run' = [q \in Prs |-> IF q = p THEN Handled(p, run[p].count + 1)
                                          ELSE Outdated(q, w)]
                    /\ UNCHANGED faults
                 \/ run' = [q \in Prs |-> IF q = p THEN Handled(p, run[p].count)
                                          ELSE Outdated(q, w)]
                    /\ Faulty
           \/ /\ ~Accepted(p) \/ tmpl[w] = v
              /\ run' = [run EXCEPT ![p] = Handled(p, run[p].count)]
              /\ UNCHANGED <<tmpl, wlFresh, faults>>
           \/ /\ Accepted(p) /\ tmpl[w] # v
              /\ run' = [run EXCEPT ![p] = Handled(p, run[p].count)]
              /\ Faulty
              /\ UNCHANGED <<tmpl, wlFresh>>
        /\ UNCHANGED <<clock, store, cache, cached, queue, wake, running, edits>>

\* UpdatedPods and LastUpdateTime are set, whatever the count.
EndApply(p) ==
    /\ run[p].pc = "apply"
    /\ run[p].recs = NoRecs
    /\ run' = [run EXCEPT ![p].obj.updated = run[p].count, ![p].count = 0,
                          ![p].pc = "finish"]
    /\ UNCHANGED <<clock, store, cache, cached, queue, wake, cluster, faults, edits>>

\* Phase Completed.  In a dry run this write is the one that claims the slot.
Finish(p) ==
    LET obj == Phased(p, "Completed")
    IN  /\ run[p].pc = "finish"
        /\ UpdatePhase(p, obj, [GoOn(p, obj, "return") EXCEPT !.recs = NoRecs])

\* Mutant: Reconcile returns an empty result.
ReturnPlain(p) ==
    /\ run[p].pc = "return"
    /\ run' = [run EXCEPT ![p] = Idle]
    /\ UNCHANGED <<clock, store, cache, cached, queue, wake, cluster, faults, edits>>

\* Reconcile returns requeueAfter; the delaying queue keeps the earlier time.
Return(p) ==
    LET due == clock + RequeueAfter(run[p].obj.spec.schedule, clock)
    IN  /\ run[p].pc = "return"
        /\ run' = [run EXCEPT ![p] = Idle]
        /\ wake' = [wake EXCEPT ![p] = IF @ = NoWake \/ due < @ THEN due ELSE @]
        /\ UNCHANGED <<clock, store, cache, cached, queue, cluster, faults, edits>>

Reconcile(p) ==
    \/ WriteAnalyzing(p) \/ Discover(p) \/ WriteError(p) \/ WriteNoPods(p)
    \/ WriteRecommending(p) \/ Generate(p) \/ Claim(p)
    \/ (\E w \in Workloads : GetWorkload(p, w)) \/ UpdateWorkload(p)
    \/ EndApply(p) \/ Finish(p) \/ Return(p)

-----------------------------------------------------------------------------
(* The cluster around the controller, and the operator's restart.          *)

Edited == edits < MaxEdits /\ edits' = edits + 1

EditSpec(p) ==
    /\ p \in alive
    /\ \E s \in Specs \ {api[p].spec} : api' = [api EXCEPT ![p].spec = s]
    /\ fresh' = [fresh EXCEPT ![p] = FALSE]
    /\ run' = [run EXCEPT ![p].cur = FALSE]
    /\ Edited
    /\ UNCHANGED <<clock, alive, cache, cached, queue, wake, cluster, faults>>

Delete(p) ==
    /\ p \in alive
    /\ alive' = alive \ {p}
    /\ fresh' = [fresh EXCEPT ![p] = FALSE]
    /\ run' = [run EXCEPT ![p].cur = FALSE]
    /\ Edited
    /\ UNCHANGED <<clock, api, cache, cached, queue, wake, cluster, faults>>

EditTemplate(w) ==
    /\ \E v \in Values \ {tmpl[w]} : Resized(w, v)
    /\ run' = [q \in Prs |-> Outdated(q, w)]
    /\ Edited
    /\ UNCHANGED <<clock, store, cache, cached, queue, wake, running, faults>>

\* w is scaled to zero or from zero.
Scale(w) ==
    /\ running' = IF w \in running THEN running \ {w} ELSE running \cup {w}
    /\ Edited
    /\ UNCHANGED <<clock, store, cache, cached, queue, wake, run, tmpl, wlFresh, faults>>

\* A pod is created, by a rollout or by hand, or its resources change.
PodEvent(w) ==
    /\ w \in running
    /\ queue' = queue \cup {p \in cached : w \in Targets[p]}
    /\ Edited
    /\ UNCHANGED <<clock, store, cache, cached, wake, run, cluster, faults>>

\* The operator stops and starts again: calls, queue and timers are lost, the
\* caches are filled from the API server, and every resource is enqueued.
Restart ==
    /\ Faulty
    /\ run' = [p \in Prs |-> Idle]
    /\ wake' = [p \in Prs |-> NoWake]
    /\ queue' = alive
    /\ cached' = alive
    /\ cache' = api
    /\ fresh' = [p \in Prs |-> TRUE]
    /\ wlFresh' = [w \in Workloads |-> TRUE]
    /\ UNCHANGED <<clock, api, alive, tmpl, running, edits>>

Others == \/ \E p \in Prs : EditSpec(p) \/ Delete(p)
          \/ \E w \in Workloads : EditTemplate(w) \/ Scale(w) \/ PodEvent(w)

Next ==
    \/ Tick
    \/ \E p \in Prs : WakeUp(p) \/ SyncPrs(p) \/ Take(p) \/ Reconcile(p)
    \/ \E w \in Workloads : SyncWorkload(w)
    \/ Others
    \/ Restart

Spec == Init /\ [][Next]_vars

(* Goroutines run, timers expire, watches deliver: weak fairness.  The work *)
(* queue is first in first out, so a queued resource is taken even when the *)
(* workers are busy again and again: strong fairness of Take.               *)
Fairness ==
    /\ \A p \in Prs : WF_vars(WakeUp(p)) /\ WF_vars(SyncPrs(p))
                      /\ SF_vars(Take(p)) /\ WF_vars(Reconcile(p))
    /\ \A w \in Workloads : WF_vars(SyncWorkload(w))
    /\ WF_vars(Tick)

FairSpec == Spec /\ Fairness

-----------------------------------------------------------------------------
(* Properties.                                                             *)

\* p waits for its timer: nothing else will make a worker look at it.
Quiet(p) == p \in alive /\ fresh[p] /\ p \notin queue /\ run[p].pc = "idle"

\* The steps that precede the write of the new LastAnalysisTime.
Unclaimed == {"analyzing", "discover", "failed", "empty", "recommending", "generate"}

\* The call holds an analysis made at obj.last that is not recorded yet.
Recording(p) ==
    run[p].pc = "claim" \/ (run[p].pc = "finish" /\ run[p].obj.spec.dryRun)

Recommended(p, call) ==
    /\ call.found \subseteq Targets[p]
    /\ \A w \in Workloads : call.recs[w] # None => w \in Targets[p]
    /\ call.pc \in {"claim", "apply", "update"} => ~call.obj.spec.dryRun
    /\ call.pc = "update" =>
         /\ call.at \in Workloads
         /\ call.recs[call.at] # None
         /\ call.obj.spec.strategy # "manual"

\* A workload is only ever opened for an update in a call that is neither a dry
\* run nor manual, on a recommendation made for it and not used yet, and
\* recommendations are only made for what the resource targets (lines 594-668).
OnlyRecommended == \A p \in Prs : Recommended(p, run[p])

\* p's informer copy, and p's call, hold the newest version if they believe so;
\* an analysis in progress is still due by the stored object, and one about to
\* be recorded was due when it was made.
CacheAgrees(p) ==
    fresh[p] => cache[p] = api[p] /\ (p \in cached <=> p \in alive)

CallAgrees(p) ==
    run[p].cur =>
        /\ run[p].pc # "idle" /\ p \in alive
        /\ run[p].obj.spec = api[p].spec
        /\ IF Recording(p)
           THEN /\ run[p].obj.last \in 1..clock
                /\ ShouldRun(api[p].spec.schedule, api[p].last, run[p].obj.last)
           ELSE run[p].obj.last = api[p].last
        /\ run[p].pc \in Unclaimed =>
             ShouldRun(api[p].spec.schedule, api[p].last, clock)

\* Whoever believes to hold the newest version of a resource does: the
\* informer's copy, and the copy a call of Reconcile carries through several
\* writes of its own while users, timers and restarts intervene (lines 71-179).
CopiesAgree == \A p \in Prs : CacheAgrees(p) /\ CallAgrees(p)

\* The controller never loses a resource: one that no worker, queue or pending
\* event will bring back has a timer set, and at most a day ahead
\* (requeueAfter, lines 203-226, on every path that returns without error).
NeverForgotten ==
    \A p \in Prs : Quiet(p) => wake[p] \in 1..(clock + Day)

\* LastAnalysisTime moves only to an instant at which the stored schedule,
\* seen from the stored LastAnalysisTime, asks for an analysis: stale caches,
\* retries, failed writes and restarts never make one slot run twice
\* (shouldRunAnalysis, lines 182-200, and the writes of updatePhase).
OneAnalysisPerSlot ==
    [][\A p \in Prs : api'[p].last # api[p].last =>
         /\ ShouldRun(api[p].spec.schedule, api[p].last, api'[p].last)
         /\ api'[p].last \in 1..clock]_vars

\* The workloads that p's recorded analysis may still change.
Granted(p) ==
    IF run[p].pc \in {"apply", "update"} /\ run[p].obj.spec.strategy # "manual"
    THEN {w \in Workloads : run[p].recs[w] # None} ELSE {}

Slots == INSTANCE AnalysisSlots WITH
            spec  <- [p \in Prs |-> api[p].spec],
            last  <- [p \in Prs |-> api[p].last],
            grant <- [p \in Prs |-> Granted(p)]

\* Every behaviour of the controller is one that AnalysisSlots allows: no
\* template is changed without a slot claimed under a spec that was in force
\* when the claim was stored, nor twice for one claim (lines 122-166, 594-762).
ImplementsSlots == Slots!Spec

\* A resource at rest has finished what it was doing: its phase is not one of
\* an analysis in progress (updatePhase, lines 790-801).
PhaseSettles ==
    \A p \in Prs : Quiet(p) => api[p].phase \notin {"Analyzing", "Recommending", "Updating"}

\* It has, as long as no write was refused, failed or cut short by a restart, and
\* no user stepped in.
PhaseSettlesUndisturbed == faults = 0 /\ edits = 0 => PhaseSettles

\* A resource at rest has its timer set for its next slot, one minute late at
\* most (requeueAfter, lines 203-226).
NoSlotMissed ==
    \A p \in Prs : Quiet(p) => wake[p] <= Deadline(api[p].spec.schedule, api[p].last)

\* p asks for an analysis, has pods, and its deadline is within the bound.
Awaited(p) ==
    /\ p \in alive /\ Targets[p] \cap running # {}
    /\ ShouldRun(api[p].spec.schedule, api[p].last, clock)
    /\ api[p].last = Never \/ Deadline(api[p].spec.schedule, api[p].last) <= MaxClock

\* An analysis that is due is made, whatever else the workers, the other
\* resources and failed calls do meanwhile (lines 71-226).
DueAnalysisHappens ==
    \A p \in Prs : \A t \in 0..MaxClock :
        (Awaited(p) /\ api[p].last = t)
            ~> (api[p].last # t \/ p \notin alive \/ Targets[p] \cap running = {}
                \/ ~ShouldRun(api[p].spec.schedule, api[p].last, clock))
=============================================================================
