# Verification of k8s-pod-rightsizer

TLA+ modules that model the operator in this repository, TLC configurations that
check them on small instances, and theorems about them that TLAPS checks for all
values of the constants. Paths such as `controller:150` are lines of
`src/internal/controller/podrightsizing_controller.go`; `engine:` is
`src/pkg/analyzer/recommendation_engine.go`, `types:` and `webhook:` are
`src/api/v1alpha1/podrightsizing_types.go` and `..._webhook.go`, `prometheus:` and
`mock:` are in `src/pkg/metrics/`, `classifier:` is
`src/pkg/analyzer/workload_classifier.go`.

## The system

A `PodRightSizing` (PRS) names pods and a cron schedule. When the schedule is due the
operator finds the pods, groups them by workload, asks a metrics source for their
usage, recommends requests and limits and, unless the PRS says otherwise, writes
them into the pod templates. Everything else follows from how that one procedure,
`Reconcile`, is driven: by a work queue, from caches, with optimistic writes.

| Component | State | Operations | What makes it correct |
|---|---|---|---|
| Controller (`Reconcile`, `applyRecommendations`, `updatePhase`) | the PRS status: phase, LastAnalysisTime, UpdatedPods; a local copy per call | analyse, recommend, claim the slot, apply, complete | no slot analysed twice; templates changed only on a recorded analysis that allows it, once per workload; the phase settles |
| Scheduling (`shouldRunAnalysis`, `requeueAfter`) | none; the clock | is it due; when to look again | a due analysis is made; no slot skipped; a timer is always set |
| Work queue, delaying queue, watches (controller-runtime) | ready set, timers, informer caches | enqueue, release, deliver | one worker per PRS; every change eventually seen |
| API server | objects with versions | get, list, update with a version | refuses updates of old versions |
| Target selection (`discoverTargetPods`, `groupPodsByWorkload`, `podMatchesTarget`) | pods found so far, groups | list namespaces, list pods, get ReplicaSets, match an event | all and only the targeted pods; groups are workloads; events agree with discovery |
| Recommendation engine | none | percentile, margin, bounds, confidence | within the bounds; covers the percentile |
| Feedback loop over the slots | templates, pods, usage | slot, rollout | comes to rest; no update below the threshold |
| Metrics clients (Prometheus, mock), the loop over workloads | the range of a query, its first answer, recommendations kept | query CPU, query memory, pair, compare with a pod | both series of one pod, over one range; no workload or pod suffers for another; a window gives enough samples; the loop makes only so many steps |
| Admission rules (registered nowhere) | none | valid target, thresholds, window | what they admit, the rest copes with |
| Classifier, advanced analyzer (called by demonstration and tests only) | none | class, pattern, spikes, priority | independent of units; consistent with each other and with the engine |
| Cost calculator, manifests | see "Not modelled" | | |

How they interact: users, watches and timers put a PRS in the queue; one of five
workers (`controller:849`) takes it, reads the PRS **from the cache**, and carries that
copy through up to four status updates, each of which is an event that enqueues the
PRS again (`controller:811`, no predicate). Workloads are read from the cache too and
written with `Update`. The metrics source and the engine are called in between.

What is hard here: the cache lags behind the operator's own writes; a status update may
be refused or take effect and still report a failure, and a failed call is run again
from the start; the operator may stop between claiming a slot and using it; the clock
is read in two places; two PRS may cover one workload; lists are not atomic; the loop
measures what it changed itself. `PROJECT.json` lists each of these under "hazards",
at its line, with the property that would notice it going wrong.

## Modules

| Module | Models | Checked by | Proved in |
|---|---|---|---|
| `Schedule` | `shouldRunAnalysis`, `requeueAfter` | `MCReconciler`, `MCVersions` | `ReconcilerProofs` |
| `Reconciler` | the controller with queue, caches, API server, users, faults | `MCReconciler`, `MCVersions`, `MCHotLoop` | `ReconcilerProofs`, `ClaimProofs`, `TimerProofs` |
| `WorkloadVersions` | `Reconciler` with the versions of the workloads counted | `MCVersions` | `ClaimProofs` |
| `AnalysisSlots` | what the controller promises, abstractly | refinement in `Reconciler` | `RefinementProofs` |
| `Targeting` | discovery, grouping, event matching | `MCTargeting` | `TargetingProofs` |
| `TargetingHistory` | `Targeting` with a record of what was true during a discovery | `MCTargeting` | `TargetingProofs` |
| `Collection` | one analysis from inside: queries, failures, the loop over workloads and pods | `MCCollection` | `CollectionProofs` |
| `Classifier` | the workload classifier and the advanced analyzer, as operators | `MCCollection` | `ClassifierProofs` |
| `Analyzers` | both of them, and the engine, on the metrics that `Collection` returns | `MCCollection` | `ClassifierProofs` |
| `Recommendation` | the engine's arithmetic and `meetsChangeThreshold` | `MCSizing` | `SizingProofs` |
| `Sizing` | the loop slot, rollout, usage over one workload | `MCSizing` | `SizingProofs` |

`Reconciler` EXTENDS `Schedule`, and instantiates `AnalysisSlots` with a refinement
mapping. It leaves two things open that the other modules close: which workloads are
found (`Discover`: any of the targets that have pods; `Targeting` says which pods those
are) and what is recommended for them (`Generate`: any value or none, for any of the
workloads). `Collection` opens `Generate`: it has the steps between two writes of the
status, and shows which workloads end up with a recommendation and from which samples.
`Sizing` looks at what the recommendations do over many slots and treats each as one
step. `Sizing`, `Collection` and `Classifier` EXTEND `Recommendation`, and `Analyzers` the
latter two.

### Reconciler and the code

One step of a call of `Reconcile` is one exchange with the API server or one read of the
clock; computation in between belongs to the step before it. `run[p]` is the call in
progress for p (the queue never gives one key to two workers, so p identifies it), and
`run[p].pc` says what it does next.

| Action | Code |
|---|---|
| `Take` | `controller:71-90`: read from the cache, `shouldRunAnalysis` |
| `WriteAnalyzing`, `WriteRecommending`, `Claim`, `Finish`, `WriteNoPods`, `WriteError` | the calls of `updatePhase` at 93, 125, 150, 170, 115, 101 |
| `Discover`, `Generate` | 98-122, 129-149 |
| `GetWorkload`, `UpdateWorkload`, `EndApply` | 593-787, 154-161 |
| `Return` | `requeueAfter`, and the delaying queue, which keeps the earlier time |
| `Retry` (part of several) | `return ctrl.Result{}, err`: enqueued again, back-off taken as zero |
| `SyncPrs`, `SyncWorkload`, `PodEvent` | `SetupWithManager`, 804-920, and the informers |
| `Restart` | `main.go:224-268` |
| `EditSpec`, `Delete`, `EditTemplate`, `Scale` | users, other controllers |

Versions. The API server compares resource versions for equality only, so a copy carries
one bit, "this is the newest version" (`fresh[p]`, `run[p].cur`, `wlFresh[w]`,
`run[p].wcur`); any write that changes the object clears the bit in all other copies. A
status update that changes nothing produces no new version and no event, as in
Kubernetes. That one bit is enough for workloads is not taken for granted:
`WorkloadVersions` counts by how many versions each copy of a workload is behind, without
reading the bit of the call, and `UpdatesHoldNewest` is stated of the count.

Writes. `updatePhase` has four outcomes: accepted; accepted but reported as failed;
failed; refused because the copy is old. `UpdateWorkload` has the same, and one more,
nothing to change. Outcomes that are faults are counted against `MaxFaults`.

Time. Instants are positive naturals and 0 is "never" (a nil LastAnalysisTime, or cron's
zero time). A cron expression is the set of instants at which it fires. `Prompt` tells
whether time may pass between `shouldRunAnalysis` and `requeueAfter` of one call; the
code reads the clock twice (199 and 212), and one of the findings is what follows.

### AnalysisSlots

The promise to owners of workloads, without queue, cache, version or phase: an analysis is
recorded only when the schedule in force asks for it, seen from the one before; recording
it grants changes to targeted workloads only if the spec in force is neither a dry run nor
manual; a granted change is made at most once, or given up. `grant[p]` maps to
the recommendations not yet handled of a call past its `Claim`. `edits` is visible in both
modules so that a step of the controller cannot pass for one of a user.

### Targeting and the code

`ListNamespaces`, `ListPods`, `GroupPod` are the API calls of 229-296 and 367-402;
pods, namespace labels and ReplicaSets change between them. `PodMatches` and
`DeploymentMatches` are 923-978 and 981-1070. Selectors are predicates over
pods and namespaces. `TargetingHistory` adds history variables: which pods qualified
throughout a discovery, and which pods and namespaces qualified at some instant of it.

### Recommendation, Sizing and the code

Numbers are exact, and a limit is truncated at the end as the code does. Floats may reach
a whole number from below; which ones is the constant `Lossy`, so that what holds for
every `Lossy` holds for the float computation. Confidence is only compared with its
default threshold, 70, and the comparison is rewritten in integers. Thresholds are not
negative; zero means "not given", as the code's tests do. A slot takes any pod the
metrics know, the pod it is compared with (`controller:458-479`), and gives all containers
the recommendation of the first one that passes (`controller:678, 748-762`).

No validator is registered, so `Sizing` also runs with thresholds that the webhook would
refuse, and nothing in these modules relies on its rules.

### Collection, Classifier, Analyzers and the code

Time is counted in query steps of a minute (`prometheus:104`): a running pod has one sample
of each resource for every step, and its first CPU rate needs two. What usage will be is
fixed from the start (`usage`), and a query sees as much of it as has passed.

| Action | Code |
|---|---|
| `Discover` | `controller:97-123`, with the groups in one step (`Targeting` splits it) |
| `Start(w)` | `controller:127-131, 405-433`, the client's own reading of the clock, `prometheus:96-104` |
| `AnswerCpu` | `prometheus:106-121`, with `buildWorkloadSelector` (200-213) and the conversion (215-241) |
| `AnswerMemory` | `prometheus:123-197`, then `generateWorkloadRecommendations` 436-501 and the engine |
| `AnswerMock` | `mock:38-139`, the same rest |
| `QueryFails` | an error of either query, of the network or of Prometheus; `controller:133-140` |
| `End` | `controller:127-148` |

`Comparable` is the search for the pod to compare with (`controller:462-479`).
`ValidWindow` is `validateAnalysisWindow` (`webhook:180-207`); `Window` is the default when the
window is missing or cannot be read (`controller:423-427`).

`Classifier` is free of state: each comparison of means, deviations and slopes in
`classifier:126-209, 408-472` and `engine:602-726` is squared and cleared of fractions, so
it is exact where the code's floats may differ in the last place. The classifier gets the
samples of the pods one after another in the order of a Go map, so the properties in
`Analyzers` quantify over every order.

## Runs

`reconcile` takes about two minutes, `timely` one and a half, every other run less than one. `CHECK_DEADLOCK FALSE` because the clock
and the number of edits are bounded and PRS may be deleted: a system with nothing left to
do may stop; `collection` can always begin another analysis, and deadlock is checked there.

| Run | Question | Bounds |
|---|---|---|
| `reconcile` | do copies, timers and slots stay right under one fault and one user change, over specs that apply hourly, are dry runs on a schedule that never fires, or are manual with a malformed one; is `AnalysisSlots` implemented when one of two workloads fails; is every update made from the newest copy | 1 PRS, 2 Deployments, 2 values, 3 instants, a firing at the third; 1 fault, 1 edit of PRS or workload (1.17 million states) |
| `timely` | whatever fails once and a user does once, is every due analysis made, does the timer of a PRS at rest cover its next slot, and do phases settle until then | 1 PRS, 1 Deployment, 2 values, 3 instants with a firing at the second, 1 fault, 1 edit, `Prompt` (204,166 states) |
| `targeting` | is discovery complete and sound while the cluster changes, are groups workloads, do events agree with discovery | 5 pods with namesakes across kinds and namespaces, one of them owned by a kind the code does not know, 2 ReplicaSets that vanish and come back, 6 targets, 2 changes |
| `sizing` | are recommendations within bounds, do they cover the percentile, does the loop come to rest and stay there, for thresholds within the rules of the webhook and outside (a percentile of 150, memory bounds the wrong way round) | 2 pods, 5 histories, 4 thresholds, 1 change |
| `collection` | does an analysis use samples that belong together, lose no workload for another, get enough of them from the window in force, and run out of steps, whichever queries fail; do classifier and analyzer agree on what it collected | 4 pods of 3 workloads in 2 namespaces, 2 mock pods, 2 courses of usage (rising and falling), 8 steps with the first analysis at the sixth, 1 pod start or stop; windows unreadable, below the hour, at the hour, and beyond what Prometheus answers |
| `hot_loop`, `stuck_phase`, `missed_slot`, `exclusions`, `two_containers`, `own_samples`, `bursty` | findings, below | |

Why the bounds are enough for the questions. Copies and claims concern one PRS, one call
in progress, one cache and the others who write: one fault reaches every failure point
and every restart point once, one edit is the user who writes between a read and a write,
and the retries and restarts of a fault do the rest; at the third instant the slot comes
round after a first analysis. The second workload is there for the fault that hits one of the two. A second
PRS on the same workload is to the first what the user is: somebody who writes between its
read and its update; for any number of PRS and workers it is the theorem `NoUpdateLost` that
speaks. `timely` is about the timers, retries and events of one PRS; that others, being served, do not keep it
waiting for ever is the order of the queue, and assumed (below). Missed events in discovery need two namespaces listed in
turn and a pod that changes after its namespace was listed; two edits give
both orders. An analysis needs a second workload to suffer from the first, a namesake and a
workload of a type without a label of its own (`rep`, the pod of a ReplicationController `web`,
counts as a workload of type Pod and is asked for as `app=web`), a pod that starts or stops between the two
queries of its workload, and, for the two analyses to differ, time left after the first
(116,980 states). Hour, default window, and Prometheus' limit of points are scaled down to
3, 5 and 6 steps, and the samples for a trend, a class and a pattern (10, 20, more than 24) to 3, 4
and more than 5, both in the order they have in the code: histories fall on both sides of each. The proofs below remove the bounds from what they cover.

`MaxClock`, `MaxFaults`, `MaxEdits` are the only bounds in the modules; each is a guard of
the action that counts. `reconcile` uses symmetry of workloads (both are
Deployments in the target) and of values, and checks no liveness; `timely` and `sizing` check liveness, without symmetry.
`Collection` adds `Warmup` and `MaxClock`, the times of the first analysis and the last.

### Fairness

`FairSpec` of `Reconciler`: weak fairness of timers, watches, the steps of each
call, and the clock, since goroutines, timers and watches make progress; strong fairness
of `Take(p)`, because the work queue is first in first out: a waiting PRS is taken although
the workers are free only between other calls. Users, restarts and faults have none.
`DueAnalysisHappens` is under the proviso that goes with the fairness of a call's steps, that the API server
and the metrics source answer or fail, which the code leaves to the network (see below).
`FairSpec` of `Sizing`: weak fairness of `Slot` (the schedule fires again) and of
`Rollout` (Kubernetes replaces pods). `Collection` has no fairness: the code sets no time-out
for a query (`main.go:195` takes the default transport, and the context has no deadline), so a
Prometheus that accepts a connection and never answers holds one worker for as long as the
connection lives, and that an analysis ends cannot be claimed. `StepsRunOut` claims what the
code does guarantee: it makes only so many steps.

### Properties

* `CopiesAgree`: whoever believes to hold the newest version does, and an analysis on
  the way to be recorded was due by the stored object.
* `OneAnalysisPerSlot`: LastAnalysisTime only moves to an instant at which the stored
  schedule asked for an analysis.
* `OnlyRecommended`: a workload is opened for update only on an unused recommendation
  of a call that is neither manual nor a dry run.
* `UpdatesHoldNewest`: a template is changed by the controller only at the version that the call had
  read, so that no change by a user or another worker is overwritten unseen.
* `NeverForgotten`, `NoSlotMissed`: what a PRS at rest may rely on its timer for: that there is one,
  and that it is not later than the next slot.
* `PhaseSettlesUndisturbed`: before the first fault and the first change by a user, no PRS at rest is in the
  phase of an analysis under way.
* `DueAnalysisHappens`: what is due is analysed, faults, restarts and changes by users notwithstanding.
* `ImplementsSlots`: the controller implements `AnalysisSlots`.
* `NothingMissed`, `NothingInvented`, `GroupsFollowOwners`, `EventsFollowTargets`.
* `WithinBounds`, `CoversSamples` (the samples at and below the percentile's index lie under the limit), `Settles`.
* `RestKept`: once the template is a recommendation, the running pods have it and all
  recommendations are similar, only users or usage move anything, whichever pod a slot picks.
* `SamplesBelongTogether`: a recommendation rests on the CPU and memory samples of one pod
  over one range, whatever happened between the two queries. That the pod is the workload's is part of
  it for the four types with a label of their own; for the others it is false (`own_samples`).
* `NothingLost`: at the end, a workload that did not fail has every recommendation it deserves, measured
  against the pod it was made from.
* `WindowSuffices`: under the window in force, admitted or the default in place of one that is missing or
  cannot be read, every pod with samples for all of it is in the answer with the engine's minimum of data
  points. With Prometheus this is about windows it answers; it answers none beyond 11,000 points.
* `StepsRunOut`: each step of the loop lowers `Left`, the steps still to make, three for each
  workload and one to end with, and nothing but a new analysis raises it.
* `ClassUnitFree`, `TrendFollowsUsage`: what the class depends on.
* `AnalyzersAgree`, `PatternsMatchConfidence`: the three judgements of the same samples agree. Between 20 and
  24 samples there is a class and no pattern, and nothing to agree about (`classifier:147`, `engine:583, 592`).

Each has a mutant in the modules: an operator `...Forced`, `...Kept`, `...Plain` and so on,
before the one it could have been, that a plausible slip in the code would produce;
with it in place TLC finds the property violated.

## Findings

* `hot_loop` (`controller:118`): with no matching pods, LastAnalysisTime is never set, and the
  PRS's own status events start the analysis again at once, without regard to the schedule.
* `stuck_phase` (`controller:170`): a spec edit between the write of Updating and the final
  write leaves phase Updating until the next slot. (A fault or restart there does the same,
  which is why `timely` checks it only as long as there was neither, `PhaseSettlesUndisturbed`.)
* `missed_slot` (`controller:214`): a firing between the two reads of the clock in a call that
  skips is neither analysed nor waited for. As long as an earlier timer for that firing is set, it still
  brings the PRS back; the trace is of a call that has none. The write of Updating takes effect and
  its answer is lost, so the call ends in an error and sets no timer; the repeated call skips, since
  the slot is claimed, and the schedule fires between its two readings. (After a restart there is no timer either.)
  The run lets the delaying queue release what is overdue before anything else happens, so that no late
  delivery takes part; with `MaxFaults = 0` it finds nothing.
* `exclusions` (`controller:271`): `excludeNamespaces` has no effect when all namespaces are
  targeted. `EventsFollowTargets` leaves these targets out (`Blanket`): there the events honour
  the exclusion and discovery does not.
* `two_containers` (`controller:482`): the change threshold compares a sum over containers
  with a value given to each, and so does not filter.
* `own_samples` (`prometheus:211`): a workload of a type without a label of its own is asked for by the
  label `app`, and a pod without a known owner gets recommendations from the pods of a Deployment of
  that name, which the status reports. (No such workload is resized, `controller:664-666`.)
* `bursty` (`classifier:199`): no workload is ever `Bursty`, since fewer than a quarter of any samples are
  spikes, and the class asks for more than three tenths; the mock client adds spikes "to ensure bursty
  classification" (`mock:63, 76`). The run shows it for samples like the mock's, the theorem
  `ClassIsNeverBursty` for all.

Seen on the way, without a run of their own:

* The window's default and examples, `7d` and `30d` (`types:31-32`), are not durations Go can
  parse: validation would refuse them (`webhook:187`), and the controller takes any of them as
  seven days (`controller:423`).
* Prometheus returns at most 11,000 points of a series: at a step of a minute, windows
  longer than about 183 hours are admitted, up to 90 days, and every query for them fails.
* MinCPU and MinMemory bound the limit (`engine:222-235`), and the request is 80 or 90 percent of it
  (`engine:135-149`): with a minimum of 150m the request becomes 120m, while `types:112` speaks
  of the minimum request.
* The bands of confidence in the comment (`engine:363-368`) are not those of the code below it:
  a deviation of 0.3 to 0.5 of the mean gives 70 to 95, not 50 to 70.
* Savings are computed from fixed requests, 100m and 128Mi (`engine:164-170`).
* If the Prometheus client cannot be made, or no URL is given, the operator goes on with the
  mock client (`main.go:192-204`), and invented usage is written to real workloads.
* The class of a workload depends on the order in which its pods come out of a map.

## Proofs

Checked by TLAPS for any sets of PRS, workloads, specs, values, any schedules and any bounds.

* `ReconcilerProofs`, about the schedule: `DueStaysDue` (a due analysis stays due until recorded),
  `RequeueAfterBounds` (between a minute and a day, whatever the schedule),
  `RequeueMeetsDeadline` (a requeue computed while not due is at most one minute
  after the next firing).
* `ReconcilerProofs!TypeCorrect`: `[]TypeOK`, and with it `[]OnlyRecommended`. The two are
  inductive only together: that `UpdateWorkload` keeps templates in `Values` needs that it
  is at a workload with a recommendation. One lemma per group of actions.
* `ClaimProofs!CopiesStayInAgreement`: `[]CopiesAgree`. The invariant is inductive relative
  to the type invariant: its parts about the call (`CallAgrees`) include that a call that has
  not claimed yet is still due, and that one about to record was due at `obj.last`, because
  that is what an accepted write needs in the next step. `DueStaysDue` carries it over `Tick`.
* `ClaimProofs!NoUpdateLost`: `UpdatesHoldNewest`, of `WorkloadVersions`. The invariant (`VersionsAgree`) is that the
  bit of a copy is set only if the count says that it is not behind, which each action keeps,
  because whatever changes a template clears the bit of all other copies.
* `ClaimProofs!NoSlotClaimedTwice`: `OneAnalysisPerSlot`, from that invariant: only
  an accepted write of a call with a newest copy changes `api[p].last`, in `Claim` or, in a
  dry run, in `Finish`, and there the invariant says that it was due.
* `RefinementProofs!ImplementsAnalysisSlots`: `Spec => ImplementsSlots`. Each step of the
  controller is mapped to a step of `AnalysisSlots`: an accepted `Claim` (or `Finish` of a dry
  run) to `Record`, whose guard is what `CopiesAgree` says of a newest copy; an update of a
  template to `Resize`; dropped recommendations, retries and restarts to `GiveUp`; everything
  the users do to an edit of theirs.
* `TimerProofs!NeverForgottenHolds`: `[]NeverForgotten`. Inductive with `CopiesAgree`, which is
  needed where a worker finds no PRS in the cache and drops it: then the cache is right, and
  the PRS is gone, or it is old, and an event is still to come.
* `TimerProofs!NoSlotEverMissed`: `[]NoSlotMissed`, if `Prompt`. A PRS at rest has a timer no
  later than its next slot: a call carries the instant it saw, and until it returns either
  another run is on its way, or what it saw is still what the object says (`Foreseen`).
  Without `Prompt` it is false: the finding `missed_slot`.
* `TimerProofs!PhasesSettle`: `[]PhaseSettlesUndisturbed`. Faults and edits are counted and never taken
  back (`CountsGrow`), so up to the first of them an invariant holds, `Orderly`, that says that the phase written last is the one that the position in the
  call implies, which needs every write accepted. With an edit it is false: `stuck_phase`.
* `ReconcilerProofs!OnlyWhatWasRecommended`: `[]OnlyRecommended` by itself.
* `TargetingProofs`: `EventsAgreeWithDiscovery`, by the three ways a target may name namespaces.
  `NothingEverMissed`: a pod that qualified throughout is found, or its namespace is still to be
  listed (`Awaiting`). `NothingEverInvented`: what is found was includable, and its namespace to
  be listed, at some instant (`Witnessed`). `GroupsAreWorkloads`: pods of one group belong to
  one workload, provided that a pod has at most one owner and no workload has the name of a
  pod (`SingleOwners`), and the ReplicaSets that own pods are ReplicaSets (`KnownOwners`). Of
  a pod with two owners the code may take the kind of one and the name of the other, and a
  pod whose ReplicaSet cannot be read counts as a Deployment of its own (`controller:348-402`).
* `SizingProofs!RecommendationsWithinBounds`: `[]WithinBounds` for every history, threshold
  and `Lossy`. The lemmas: a percentile is a weighted mean of two of the samples (the
  index never leaves them), truncation loses less than two units and nothing below zero,
  minimum and maximum in the code's order.
* `SizingProofs!LimitsCoverSamples`: the samples at and below the percentile's index are
  covered by the limit, and they are more than that percentage of all but one.
* `SizingProofs!RecommendationFollowsUsage`, `RecommendationFollowsPercentile`: more usage, sample
  for sample, or a higher percentile never gives a smaller limit or request. Each stage is shown
  to grow with what goes in: interpolation inside one interval and from one to the next, the
  bounds, and truncation, where the unit that floats lose must not turn the order round.
* `SizingProofs!RestIsKept`: `RestKept`, for pods of one container. The sum over the one container
  is its own request (`TotalOfOne`), recommendations that are similar do not pass the change
  test in either direction (`NearIsNoChange`), and so no slot finds anything to do. With two
  containers the sum is twice what the template says: the finding `two_containers`.
* `CollectionProofs`: `TypeCorrect`, `SamplesAlwaysBelongTogether`,
  `NothingEverLost`. The idea is that the past does not change (`StepsKeepPast`): the answer
  to a query about a range that has ended is the same at any later time, so the second query
  may come late (`PastStays`, `AnswerKnown`). The invariant adds where in the loop a workload is
  (`Accounted`: to do, failed, in work, or analysed), what the first answer was (`CpuKnown`),
  and that what was kept is right (`KeptRight`).
* `CollectionProofs!WindowsSuffice`: `[]WindowSuffices`, if the minimum of data
  points is no more than an hour's, the default window's, and the model's clock. What the answer
  contains follows from `MetricsKnown`, and how long a series is from `SeriesLength`.
* `CollectionProofs!StepsAlwaysRunOut`: `StepsRunOut`. A workload leaves `todo` in the step that
  starts it, and the steps its queries may take are counted from then on; that a query which
  fails uses them up as well, and puts no workload back, is what makes the loop end.
* `ClassifierProofs` proves the four properties of the analyzers, first for any samples, then in
  every state. The sums run over sequences, and that the recursive `Sums` has a value at all is a
  lemma (`AddsExists`, `SumsAdd`). What needs induction over positions is shown from a set of
  naturals that contains 0 and, with each number below the length, the next (`Climb`: the least
  number missing from it would have a predecessor in it).
  - `SpreadMeasuresDeviation`: the expression every comparison uses, n times the sum of squares
    less the square of the sum, is the sum of squared deviations, cleared of fractions.
  - `SpikesAreFew`, and from it `ClassIsNeverBursty`: each spike alone accounts for more than four
    n-ths of the deviation there is, so that fewer than a quarter of the samples can be spikes
    (Chebyshev's inequality), while the class asks for three tenths.
  - `ClassFollowsUsage`: the slope of a series grows by the amounts by which each sample exceeds
    those before it, which all have one sign if usage never falls, or never rises.
  - `ClassKeepsUnits`: a factor comes out of every sum and cancels from every comparison.
  - `ClassAgreesWithPatterns`, `PatternsFollowConfidence`: by the three thresholds on one spread, and, for the
    first, because no class is Bursty.
  - `ClassAlwaysUnitFree`, `TrendAlwaysFollowsUsage`, `AnalyzersAlwaysAgree`,
    `PatternsAlwaysMatchConfidence` carry these to every state of every analysis: the client's
    answers are histories of naturals for finitely many pods (`AnswersTyped`), also when strung
    together in any order.

The assumptions are those named `...Assumption` in the modules: types of the constants,
`0 < Minute < Hour < Day`, finitely many pods in `Collection`, and in `Classifier` that a trend
takes at least two samples (the code: ten) and the others at least one; where a theorem has
more, it says so after ASSUME. TLC evaluates those of the modules in the runs.

Model-checked only: liveness (`DueAnalysisHappens`, `Settles`), which needs fairness
and ENABLED. Of the second the safety half is proved, for pods of one container: `RestKept`. That the loop of `Sizing` gets to its rest is seen by TLC alone.

## Not modelled, and simplifications

* `PrometheusClient.GetPodMetrics` and `ServerClient`, which nothing calls; the text of a query
  and the conversion of its answer. `spec.metricsSource`, which the code ignores.
* The cost calculator: prices times floats, on which nothing decides. Of the classifier the
  confidence score and the advice, of the analyzer the percentiles it reports, of the engine
  the reasons and the savings: they go into status and output, and into no decision.
* Admission rules for the thresholds, the schedule, the update policy and the metrics source, and the
  defaults. `SetupWebhookWithManager` registers no validator, so none of the rules is in force;
  those on target and window are the conditions `Valid` and `ValidWindow`.
* The back-off of failed calls is zero, so calls are retried earlier than in reality, never later.
* LastAnalysisTime is stored in seconds; instants here are not finer than that.
* A read of a workload that was deleted is a failed read. A deleted PRS is not recreated
  under its name. A user may not change `target` in `Reconciler`.
* Two operators at once (leader election handing over), periodic resyncs of the informers.
* `MinStabilityPeriod`, `BackoffLimit`, `MaxUnavailable`: the code reads none of them.
* `Sizing` does not know init containers, or resources other than cpu and memory.
* Ties of the float comparisons exactly at a threshold, which rounding may decide either way.

## What is left

Every component of the operator that keeps or decides something has a module, and every
invariant and action property of its passing runs has a theorem. Worth adding:

1. A change of `target` in `Reconciler`: workloads that leave the target of a PRS between its
   discovery and its updates are today those whose pods are gone.
2. `Reconciler`'s `Discover` with the steps of `Targeting` in place of one step, for one PRS.
3. The pause between failures (`BackoffLimit` is not read, the queue's own back-off is), which
   needs time finer than the instants of a schedule.
