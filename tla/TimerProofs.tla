----------------------------- MODULE TimerProofs -----------------------------
(***************************************************************************)
(* What a resource at rest may rely on: its timer is set, set early enough *)
(* for its next slot, and its phase is one of an analysis that is over.    *)
(***************************************************************************)
EXTENDS ClaimProofs

\* Inductive together with Inv, which tells that a worker that finds no resource
\* in the cache was right, or will be told of it.
Attended ==
    \A p \in Prs : /\ Quiet(p) => wake[p] # NoWake
                   /\ wake[p] <= clock + Day

\* A step that sets no timer, and leaves p at rest only if it was.
LEMMA StaysAttended ==
    ASSUME Inv, Attended, clock' \in {clock, clock + 1},
           \A q \in Prs : /\ wake'[q] = wake[q] \/ (wake'[q] = NoWake /\ q \in queue')
                          /\ Quiet(q)' => Quiet(q) \/ q \in queue'
    PROVE  Attended'
  <1>1. Day \in Nat /\ clock \in Nat /\ wake \in [Prs -> Nat]
    BY ScheduleAssumption, Typed DEF TypeOK
  <1>2. ASSUME NEW q \in Prs, Quiet(q)' PROVE wake'[q] # NoWake
    BY <1>2 DEF Attended, Quiet
  <1>3. ASSUME NEW q \in Prs PROVE wake'[q] <= clock' + Day
    BY <1>1, ScheduleAssumption DEF Attended, NoWake
  <1> QED
    BY <1>2, <1>3 DEF Attended

LEMMA ReconcileAttends ==
    ASSUME Inv, Attended, NEW p \in Prs, Reconcile(p)
    PROVE  Attended'
  <1> USE DEF store, cluster
  <1>0. /\ TypeOK /\ run \in [Prs -> Call] /\ run[p] \in Call /\ clock \in Nat
        /\ wake \in [Prs -> Nat] /\ fresh \in [Prs -> BOOLEAN]
    BY Typed, CallTyped DEF TypeOK
  \* The call of p goes on, or fails and is retried; no resource becomes fresh.
  <1>1. ASSUME UNCHANGED <<clock, alive, wake>>,
               \A q \in Prs : /\ fresh'[q] => fresh[q]
                              /\ q \in queue => q \in queue'
                              /\ q # p => run'[q].pc = run[q].pc,
               run'[p].pc # "idle" \/ p \in queue'
        PROVE  Attended'
    BY <1>1, StaysAttended DEF Quiet
  <1>2. ASSUME NEW obj, NEW then, then.pc # "idle", UpdatePhase(p, obj, then) PROVE Attended'
    <2>1. UNCHANGED <<clock, alive, wake>>
      BY <1>2 DEF UpdatePhase
    <2>2. \A q \in Prs : (fresh'[q] => fresh[q]) /\ (q \in queue => q \in queue')
      BY <1>0, <1>2 DEF UpdatePhase, Stored, Retry
    <2>3. \A q \in Prs \ {p} : run'[q] = run[q]
      BY <1>0, <1>2 DEF UpdatePhase, Retry
    <2>4. run'[p].pc # "idle" \/ p \in queue'
      BY <1>0, <1>2 DEF UpdatePhase, Retry
    <2> QED
      BY <1>1, <2>1, <2>2, <2>3, <2>4
  <1>3. ASSUME NEW phase \in Phases, NEW pc \in Steps \ {"idle"},
               UpdatePhase(p, Phased(p, phase), GoOn(p, Phased(p, phase), pc))
        PROVE  Attended'
    <2>1. GoOn(p, Phased(p, phase), pc).pc = pc
      BY PhasedKeeps
    <2> QED
      BY <1>2, <1>3, <2>1
  <1>4. CASE WriteAnalyzing(p)
    BY <1>3, <1>4 DEF WriteAnalyzing, Phases, Steps
  <1>5. CASE Discover(p)
    <2>1. run'[p].pc \in {"failed", "empty", "recommending"}
      BY <1>0, <1>5 DEF Discover, Call
    <2> QED
      BY <1>0, <1>1, <1>5, <2>1 DEF Discover
  <1>6. CASE WriteError(p)
    <2>1. \A q \in Prs : fresh'[q] => fresh[q]
      BY <1>0, <1>6 DEF WriteError, Stored
    <2> QED
      BY <1>0, <1>1, <1>6, <2>1 DEF WriteError, Retry
  <1>7. CASE WriteNoPods(p)
    BY <1>3, <1>7 DEF WriteNoPods, Phases, Steps
  <1>8. CASE WriteRecommending(p)
    BY <1>3, <1>8 DEF WriteRecommending, Phases, Steps
  <1>9. CASE Generate(p)
    <2>1. run'[p].pc \in {"finish", "claim"}
      BY <1>0, <1>9 DEF Generate, Call
    <2> QED
      BY <1>0, <1>1, <1>9, <2>1 DEF Generate
  <1>10. CASE Claim(p)
    BY <1>3, <1>10 DEF Claim, Phases, Steps
  <1>11. ASSUME NEW w \in Workloads, GetWorkload(p, w) PROVE Attended'
    <2>1. run'[p].pc \in {"apply", "update"}
      BY <1>0, <1>11 DEF GetWorkload, Call
    <2> QED
      BY <1>0, <1>1, <1>11, <2>1 DEF GetWorkload
  <1>12. CASE UpdateWorkload(p)
    <2>1. \A n : Handled(p, n).pc = "apply"
      BY <1>0 DEF Handled, Call
    <2>2. \A q \in Prs : \A w : Outdated(q, w).pc = run[q].pc
      BY <1>0 DEF Outdated, Call
    <2>3. PICK n :
            \/ run' = [q \in Prs |-> IF q = p THEN Handled(p, n) ELSE Outdated(q, run[p].at)]
            \/ run' = [run EXCEPT ![p] = Handled(p, n)]
      BY <1>12 DEF UpdateWorkload
    <2>4. run'[p].pc = "apply" /\ \A q \in Prs \ {p} : run'[q].pc = run[q].pc
      BY <1>0, <2>1, <2>2, <2>3
    <2> QED
      BY <1>1, <1>12, <2>4 DEF UpdateWorkload
  <1>13. CASE EndApply(p)
    <2>1. run'[p].pc = "finish"
      BY <1>0, <1>13 DEF EndApply, Call
    <2> QED
      BY <1>0, <1>1, <1>13, <2>1 DEF EndApply
  <1>14. CASE Finish(p)
    <2> DEFINE obj  == Phased(p, "Completed")
               goon == GoOn(p, obj, "return")
               then == [goon EXCEPT !.recs = NoRecs]
    <2>1. goon \in Call /\ goon.pc = "return"
      <3>1. "Completed" \in Phases /\ "return" \in Steps
        BY DEF Phases, Steps
      <3> QED
        BY <3>1, PhasedKeeps
    <2>2. UpdatePhase(p, obj, then)
      BY <1>14 DEF Finish
    <2> HIDE DEF obj, goon
    <2>3. then.pc = "return"
      BY <2>1 DEF Call
    <2> HIDE DEF then
    <2> QED
      BY <1>2, <2>2, <2>3
  <1>15. CASE Return(p)
    <2> DEFINE wait == RequeueAfter(run[p].obj.spec.schedule, clock)
               due  == clock + wait
    <2>1. wait \in Nat /\ wait > 0 /\ wait <= Day /\ Day \in Nat
      BY <1>0, CallTyped, RequeueAfterBounds, ScheduleAssumption
    <2>2. /\ run'[p] = Idle /\ UNCHANGED <<clock, alive, fresh, queue>>
          /\ wake' = [wake EXCEPT ![p] = IF @ = NoWake \/ due < @ THEN due ELSE @]
          /\ \A q \in Prs \ {p} : run'[q] = run[q]
      BY <1>0, <1>15 DEF Return
    <2> HIDE DEF wait
    <2>3. wake'[p] # NoWake /\ wake'[p] <= clock + Day
      BY <1>0, <2>1, <2>2 DEF Attended, NoWake
    <2>4. \A q \in Prs \ {p} : wake'[q] = wake[q] /\ (Quiet(q)' => Quiet(q))
      BY <1>0, <2>2 DEF Quiet
    <2> QED
      BY <2>2, <2>3, <2>4 DEF Attended
  <1> QED
    BY <1>4, <1>5, <1>6, <1>7, <1>8, <1>9, <1>10, <1>11, <1>12, <1>13, <1>14, <1>15
       DEF Reconcile

\* A resource that no worker, queue or pending event will bring back has its timer
\* set, at most a day ahead (requeueAfter, lines 203-226), whatever was retried,
\* refused, deleted or restarted before.
THEOREM NeverForgottenHolds == Spec => []NeverForgotten
  <1> USE DEF store, cluster
  <1>1. Init => Attended
    BY ScheduleAssumption DEF Init, Attended, Quiet, NoWake
  <1>2. Inv /\ Attended /\ [Next]_vars => Attended'
    <2> SUFFICES ASSUME Inv, Attended, [Next]_vars PROVE Attended'
      OBVIOUS
    <2>0. /\ run \in [Prs -> Call] /\ clock \in Nat /\ wake \in [Prs -> Nat]
          /\ \A q \in Prs : CacheAgrees(q)
      BY Typed DEF TypeOK, CopiesAgree
    <2>1. CASE Tick
      BY <2>1, StaysAttended DEF Tick, Quiet
    <2>2. ASSUME NEW p \in Prs, WakeUp(p) PROVE Attended'
      BY <2>0, <2>2, StaysAttended DEF WakeUp, Quiet
    <2>3. ASSUME NEW p \in Prs, SyncPrs(p) PROVE Attended'
      <3>1. \A q \in Prs \ {p} : fresh'[q] = fresh[q]
        BY <2>3, Typed DEF SyncPrs
      <3> QED
        BY <2>3, <3>1, StaysAttended DEF SyncPrs, Quiet
    <2>4. ASSUME NEW p \in Prs, Take(p) PROVE Attended'
      <3>1. /\ UNCHANGED <<clock, alive, fresh, wake>>
            /\ \A q \in Prs \ {p} : run'[q] = run[q] /\ (q \in queue => q \in queue')
        BY <2>0, <2>4 DEF Take
      <3>2. Quiet(p)' => p \notin cached
        BY <2>0, <2>4, IdleTyped DEF Take, Quiet, Call
      <3>3. ~Quiet(p)'
        BY <2>0, <3>1, <3>2 DEF Quiet, CacheAgrees
      <3>4. \A q \in Prs : Quiet(q)' => Quiet(q)
        BY <3>1, <3>3 DEF Quiet
      <3> QED
        BY <3>1, <3>4, StaysAttended
    <2>5. ASSUME NEW p \in Prs, Reconcile(p) PROVE Attended'
      BY <2>5, ReconcileAttends
    <2>6. ASSUME NEW w \in Workloads, SyncWorkload(w) PROVE Attended'
      BY <2>6, StaysAttended DEF SyncWorkload, Quiet
    <2>7. CASE Others
      <3>1. /\ UNCHANGED <<clock, wake>> /\ queue \subseteq queue' /\ alive' \subseteq alive
            /\ \A q \in Prs : fresh'[q] => fresh[q]
        BY <2>7, Typed DEF Others, EditSpec, Delete, EditTemplate, Scale, PodEvent
      <3>2. \A q \in Prs : run'[q].pc = run[q].pc
        <4>1. \A q \in Prs : [run[q] EXCEPT !.cur = FALSE].pc = run[q].pc
          BY <2>0 DEF Call
        <4>2. \A q \in Prs : \A w : Outdated(q, w).pc = run[q].pc
          BY <2>0 DEF Outdated, Call
        <4>3. ASSUME NEW p \in Prs, EditSpec(p) \/ Delete(p)
              PROVE  \A q \in Prs : run'[q].pc = run[q].pc
          BY <2>0, <4>1, <4>3 DEF EditSpec, Delete
        <4>4. ASSUME NEW w \in Workloads, EditTemplate(w)
              PROVE  \A q \in Prs : run'[q].pc = run[q].pc
          BY <2>0, <4>2, <4>4 DEF EditTemplate
        <4>5. ASSUME UNCHANGED run PROVE \A q \in Prs : run'[q].pc = run[q].pc
          BY <4>5
        <4> QED
          BY <2>7, <4>3, <4>4, <4>5 DEF Others, Scale, PodEvent
      <3> QED
        BY <3>1, <3>2, StaysAttended DEF Quiet
    <2>8. CASE Restart
      BY <2>0, <2>8, StaysAttended, ScheduleAssumption DEF Restart, Quiet, Attended, NoWake
    <2>9. CASE UNCHANGED vars
      BY <2>9 DEF vars, Attended, Quiet
    <2> QED
      BY <2>1, <2>2, <2>3, <2>4, <2>5, <2>6, <2>7, <2>8, <2>9 DEF Next
  <1>3. Inv /\ Attended => NeverForgotten
    BY Typed, ScheduleAssumption DEF TypeOK, Attended, NeverForgotten, NoWake
  <1>4. Spec => []Inv
    BY TypeInvariant, CopiesStayInAgreement, PTL DEF Inv
  <1> QED
    BY <1>1, <1>2, <1>3, <1>4, PTL DEF Spec

-----------------------------------------------------------------------------
(* What a step of a call does to its own resource, for the two proofs that *)
(* follow: it fails and is retried, it has written a phase, it has found   *)
(* something out, or it returns.                                           *)

Working == {"Analyzing", "Recommending", "Updating"}
Midway  == Steps \ {"idle", "analyzing", "return"}

Fails(p) ==
    /\ run[p].pc \in Midway \cup {"analyzing"}
    /\ run'[p] = Idle /\ p \in queue' /\ wake'[p] = wake[p]
    /\ Faulty \/ (api'[p] = api[p] /\ ~run[p].cur) \/ api'[p].phase = "Error"

Writes(p) ==
    /\ run[p].pc \in Midway \cup {"analyzing"}
    /\ run[p].cur /\ run'[p].cur
    /\ api'[p] # api[p] => ~fresh'[p]
    /\ \/ api'[p].phase \in Working /\ run'[p].pc \in Midway
       \/ api'[p].phase = "Completed" /\ run[p].pc \in Midway /\ run'[p].pc = "return"

Computes(p) ==
    /\ run[p].pc \in Midway /\ run'[p].pc \in Midway
    /\ run'[p].cur = run[p].cur /\ api'[p] = api[p]

Returns(p) ==
    LET due == clock + RequeueAfter(run[p].obj.spec.schedule, clock)
    IN  /\ run[p].pc = "return" /\ run'[p] = Idle
        /\ api'[p] = api[p] /\ fresh'[p] = fresh[p] /\ (p \in queue => p \in queue')
        /\ wake'[p] = IF wake[p] = NoWake \/ due < wake[p] THEN due ELSE wake[p]

\* A step that q has no part in; it may be put in the queue.
Spared(q) ==
    /\ api'[q] = api[q] /\ fresh'[q] = fresh[q] /\ wake'[q] = wake[q]
    /\ q \in queue => q \in queue'
    /\ q \in alive' => q \in alive
    /\ run'[q].pc = run[q].pc /\ run'[q].cur = run[q].cur /\ run'[q].obj = run[q].obj

LEMMA PhasedHasPhase ==
    ASSUME Inv, NEW p \in Prs, NEW phase \in Phases
    PROVE  Phased(p, phase).phase = phase /\ Phased(p, phase) \in Object
  <1>1. run[p].obj \in Object
    BY Typed, CallTyped
  <1> QED
    BY <1>1 DEF Phased, Object

LEMMA UpdatePhaseMoves ==
    ASSUME Inv, NEW p \in Prs, NEW obj \in Object, NEW then \in Call,
           UpdatePhase(p, obj, then), run[p].pc \in Midway \cup {"analyzing"},
           then.cur = run[p].cur,
           \/ obj.phase \in Working /\ then.pc \in Midway
           \/ obj.phase = "Completed" /\ run[p].pc \in Midway /\ then.pc = "return"
    PROVE  /\ UNCHANGED clock
           /\ \A q \in Prs \ {p} : Spared(q)
           /\ Fails(p) \/ Writes(p)
  <1>0. /\ TypeOK /\ run \in [Prs -> Call] /\ api \in [Prs -> Object]
        /\ fresh \in [Prs -> BOOLEAN] /\ CallAgrees(p)
    BY Typed DEF CopiesAgree
  <1>1. UNCHANGED <<clock, alive, wake>>
    BY DEF UpdatePhase
  <1>2. ASSUME NEW q \in Prs \ {p} PROVE Spared(q)
    BY <1>0, <1>1 DEF UpdatePhase, Retry, Stored, Spared
  <1>3. CASE run[p].cur /\ Stored(p, obj) /\ run' = [run EXCEPT ![p] = then]
    <2>1. /\ run'[p] = then /\ api'[p].phase = obj.phase
          /\ api'[p] # api[p] => ~fresh'[p]
      BY <1>0, <1>3 DEF Stored, Object
    <2> QED
      BY <1>1, <1>2, <1>3, <2>1 DEF Writes
  <1>4. CASE Retry(p) /\ (Faulty \/ (~run[p].cur /\ UNCHANGED api))
    <2>1. run'[p] = Idle /\ p \in queue'
      BY <1>0, <1>4 DEF Retry
    <2> QED
      BY <1>1, <1>2, <1>4, <2>1 DEF Fails
  <1> QED
    BY <1>3, <1>4 DEF UpdatePhase

LEMMA ReconcileMoves ==
    ASSUME Inv, NEW p \in Prs, Reconcile(p)
    PROVE  /\ UNCHANGED clock
           /\ \A q \in Prs \ {p} : Spared(q)
           /\ Fails(p) \/ Writes(p) \/ Computes(p) \/ Returns(p)
  <1> USE DEF store, cluster
  <1> DEFINE Goal == /\ UNCHANGED clock
                     /\ \A q \in Prs \ {p} : Spared(q)
                     /\ Fails(p) \/ Writes(p) \/ Computes(p) \/ Returns(p)
  <1>0. /\ TypeOK /\ run \in [Prs -> Call] /\ run[p] \in Call /\ api \in [Prs -> Object]
        /\ wake \in [Prs -> Nat] /\ fresh \in [Prs -> BOOLEAN]
    BY Typed, CallTyped DEF TypeOK
  \* The call finds something out.
  <1>1. ASSUME UNCHANGED <<clock, api, alive, fresh, queue, wake>>,
               \A q \in Prs \ {p} : /\ run'[q].pc = run[q].pc /\ run'[q].cur = run[q].cur
                                      /\ run'[q].obj = run[q].obj,
               run[p].pc \in Midway, run'[p].pc \in Midway, run'[p].cur = run[p].cur
        PROVE  Goal
    BY <1>1 DEF Spared, Computes
  \* The call writes a phase.
  <1>2. ASSUME NEW phase \in Phases, NEW pc \in Steps,
               run[p].pc \in Midway \cup {"analyzing"},
               \/ phase \in Working /\ pc \in Midway
               \/ phase = "Completed" /\ run[p].pc \in Midway /\ pc = "return",
               UpdatePhase(p, Phased(p, phase), GoOn(p, Phased(p, phase), pc))
        PROVE  Goal
    <2> DEFINE obj  == Phased(p, phase)
               then == GoOn(p, obj, pc)
    <2>1. /\ obj \in Object /\ then \in Call /\ obj.phase = phase
          /\ then.cur = run[p].cur /\ then.pc = pc
      BY PhasedKeeps, PhasedHasPhase
    <2>2. UpdatePhase(p, obj, then)
      BY <1>2
    <2> HIDE DEF obj, then
    <2> QED
      BY <1>2, <2>1, <2>2, UpdatePhaseMoves
  <1>3. CASE WriteAnalyzing(p)
    BY <1>2, <1>3 DEF WriteAnalyzing, Phases, Steps, Working, Midway
  <1>4. CASE Discover(p)
    <2>1. /\ run'[p].pc \in {"failed", "empty", "recommending"} /\ run'[p].cur = run[p].cur
          /\ \A q \in Prs \ {p} : run'[q] = run[q]
      BY <1>0, <1>4 DEF Discover, Call
    <2> QED
      BY <1>1, <1>4, <2>1 DEF Discover, Midway, Steps
  <1>5. CASE WriteError(p)
    <2>1. /\ UNCHANGED <<clock, alive, wake>> /\ run[p].pc = "failed"
          /\ run'[p] = Idle /\ p \in queue' /\ queue \subseteq queue'
          /\ \A q \in Prs \ {p} : run'[q] = run[q] /\ api'[q] = api[q] /\ fresh'[q] = fresh[q]
      BY <1>0, <1>5 DEF WriteError, Retry, Stored
    <2>2. Phased(p, "Error").phase = "Error" /\ Phased(p, "Error") \in Object
      BY PhasedHasPhase DEF Phases
    <2>3. Faulty \/ (api'[p] = api[p] /\ ~run[p].cur) \/ api'[p].phase = "Error"
      BY <1>0, <1>5, <2>2 DEF WriteError, Stored, Object
    <2> QED
      BY <2>1, <2>3 DEF Spared, Fails, Midway, Steps
  <1>6. CASE WriteNoPods(p)
    BY <1>2, <1>6 DEF WriteNoPods, Phases, Steps, Working, Midway
  <1>7. CASE WriteRecommending(p)
    BY <1>2, <1>7 DEF WriteRecommending, Phases, Steps, Working, Midway
  <1>8. CASE Generate(p)
    <2>1. /\ run'[p].pc \in {"finish", "claim"} /\ run'[p].cur = run[p].cur
          /\ \A q \in Prs \ {p} : run'[q] = run[q]
      BY <1>0, <1>8 DEF Generate, Call
    <2> QED
      BY <1>1, <1>8, <2>1 DEF Generate, Midway, Steps
  <1>9. CASE Claim(p)
    BY <1>2, <1>9 DEF Claim, Phases, Steps, Working, Midway
  <1>10. ASSUME NEW w \in Workloads, GetWorkload(p, w) PROVE Goal
    <2>1. /\ run'[p].pc \in {"apply", "update"} /\ run'[p].cur = run[p].cur
          /\ \A q \in Prs \ {p} : run'[q] = run[q]
      BY <1>0, <1>10 DEF GetWorkload, Call
    <2> QED
      BY <1>1, <1>10, <2>1 DEF GetWorkload, Midway, Steps
  <1>11. CASE UpdateWorkload(p)
    <2>1. \A n : Handled(p, n).pc = "apply" /\ Handled(p, n).cur = run[p].cur
      BY <1>0 DEF Handled, Call
    <2>2. \A q \in Prs : \A w : /\ Outdated(q, w).pc = run[q].pc
                                /\ Outdated(q, w).cur = run[q].cur
                                /\ Outdated(q, w).obj = run[q].obj
      BY <1>0 DEF Outdated, Call
    <2>3. PICK n :
            \/ run' = [q \in Prs |-> IF q = p THEN Handled(p, n) ELSE Outdated(q, run[p].at)]
            \/ run' = [run EXCEPT ![p] = Handled(p, n)]
      BY <1>11 DEF UpdateWorkload
    <2>4. /\ run'[p].pc = "apply" /\ run'[p].cur = run[p].cur
          /\ \A q \in Prs \ {p} : /\ run'[q].pc = run[q].pc /\ run'[q].cur = run[q].cur
                                  /\ run'[q].obj = run[q].obj
      BY <1>0, <2>1, <2>2, <2>3
    <2> QED
      BY <1>1, <1>11, <2>4 DEF UpdateWorkload, Midway, Steps
  <1>12. CASE EndApply(p)
    <2>1. /\ run'[p].pc = "finish" /\ run'[p].cur = run[p].cur
          /\ \A q \in Prs \ {p} : run'[q] = run[q]
      BY <1>0, <1>12 DEF EndApply, Call
    <2> QED
      BY <1>1, <1>12, <2>1 DEF EndApply, Midway, Steps
  <1>13. CASE Finish(p)
    <2> DEFINE obj  == Phased(p, "Completed")
               goon == GoOn(p, obj, "return")
               then == [goon EXCEPT !.recs = NoRecs]
    <2>1. /\ obj \in Object /\ goon \in Call /\ obj.phase = "Completed"
          /\ goon.cur = run[p].cur /\ goon.pc = "return"
      <3>1. "Completed" \in Phases /\ "return" \in Steps
        BY DEF Phases, Steps
      <3> QED
        BY <3>1, PhasedKeeps, PhasedHasPhase
    <2>2. UpdatePhase(p, obj, then) /\ run[p].pc \in Midway
      BY <1>13 DEF Finish, Midway, Steps
    <2> HIDE DEF obj, goon
    <2>3. then \in Call /\ then.cur = run[p].cur /\ then.pc = "return"
      BY <2>1 DEF Call, NoRecs
    <2> HIDE DEF then
    <2> QED
      BY <2>1, <2>2, <2>3, UpdatePhaseMoves
  <1>14. CASE Return(p)
    BY <1>0, <1>14 DEF Return, Returns, Spared
  <1> QED
    BY <1>3, <1>4, <1>5, <1>6, <1>7, <1>8, <1>9, <1>10, <1>11, <1>12, <1>13, <1>14
       DEF Reconcile

\* Steps around the workloads leave every resource alone.
LEMMA WorkloadsSpare ==
    ASSUME Inv, NEW w \in Workloads,
           SyncWorkload(w) \/ EditTemplate(w) \/ Scale(w) \/ PodEvent(w)
    PROVE  UNCHANGED clock /\ \A q \in Prs : Spared(q)
  <1> USE DEF store, cluster
  <1>1. run \in [Prs -> Call]
    BY Typed
  <1>2. CASE EditTemplate(w)
    <2>1. \A q \in Prs : /\ Outdated(q, w).pc = run[q].pc /\ Outdated(q, w).cur = run[q].cur
                         /\ Outdated(q, w).obj = run[q].obj
      BY <1>1 DEF Outdated, Call
    <2> QED
      BY <1>1, <1>2, <2>1 DEF EditTemplate, Spared
  <1>3. CASE SyncWorkload(w) \/ Scale(w) \/ PodEvent(w)
    BY <1>3 DEF SyncWorkload, Scale, PodEvent, Spared
  <1> QED
    BY <1>2, <1>3

\* A user's change of p: every copy is old, and an event is on its way.
LEMMA EditOutdates ==
    ASSUME Inv, NEW p \in Prs, EditSpec(p) \/ Delete(p)
    PROVE  /\ UNCHANGED clock
           /\ \A q \in Prs \ {p} : Spared(q)
           /\ ~fresh'[p] /\ ~run'[p].cur
  <1> USE DEF cluster
  <1>1. run \in [Prs -> Call] /\ api \in [Prs -> Object] /\ fresh \in [Prs -> BOOLEAN]
    BY Typed
  <1> QED
    BY <1>1 DEF EditSpec, Delete, Spared, Call

\* What a worker does with the resource it takes.
LEMMA TakeMoves ==
    ASSUME Inv, NEW p \in Prs, Take(p)
    PROVE  /\ UNCHANGED <<clock, api, alive, fresh>>
           /\ \A q \in Prs \ {p} : Spared(q)
           /\ run[p].pc = "idle"
           /\ p \notin cached => run'[p] = run[p]
           /\ p \in cached =>
                /\ run'[p].obj = cache[p] /\ run'[p].cur = fresh[p]
                /\ run'[p].pc = IF ShouldRun(cache[p].spec.schedule, cache[p].last, clock)
                                THEN "analyzing" ELSE "return"
  <1> USE DEF store
  <1> DEFINE due   == ShouldRun(cache[p].spec.schedule, cache[p].last, clock)
             taken == [Idle EXCEPT !.obj = cache[p], !.cur = fresh[p],
                                   !.pc = IF due THEN "analyzing" ELSE "return"]
  <1>1. /\ taken.obj = cache[p] /\ taken.cur = fresh[p]
        /\ taken.pc = IF due THEN "analyzing" ELSE "return"
    BY IdleTyped DEF Call
  <1>2. run' = IF p \notin cached THEN run ELSE [run EXCEPT ![p] = taken]
    BY DEF Take
  <1> HIDE DEF taken
  <1>3. run \in [Prs -> Call]
    BY Typed
  <1>4. ASSUME NEW q \in Prs \ {p} PROVE Spared(q)
    BY <1>2, <1>3 DEF Take, Spared
  <1> QED
    BY <1>1, <1>2, <1>3, <1>4 DEF Take

-----------------------------------------------------------------------------
(* No slot is missed.                                                      *)

\* An analysis under way shows in the stored phase, as long as nobody edited.
MidwayPhased(p) == run[p].cur /\ run[p].pc \in Midway => api[p].phase \in Working

\* Somebody will look at p by its deadline: an event, the queue, a worker or the
\* timer brings it back, or a call that found it not due is about to set it.
Foreseen(p) ==
    \/ p \notin alive \/ ~fresh[p] \/ p \in queue
    \/ run[p].pc \notin {"idle", "return"}
    \/ (wake[p] # NoWake /\ wake[p] <= Deadline(api[p].spec.schedule, api[p].last))
    \/ (/\ run[p].pc = "return" /\ run[p].obj.spec = api[p].spec
        /\ ~ShouldRun(api[p].spec.schedule, api[p].last, clock))

LastPast == \A p \in Prs : api[p].last <= clock

LEMMA SparedForeseen ==
    ASSUME NEW q \in Prs, Spared(q), UNCHANGED clock, MidwayPhased(q), Foreseen(q)
    PROVE  MidwayPhased(q)' /\ Foreseen(q)'
  BY DEF Spared, MidwayPhased, Foreseen

LEMMA ReturnForeseen ==
    ASSUME Inv, LastPast, NEW p \in Prs, Returns(p), Foreseen(p),
           UNCHANGED <<clock, alive>>
    PROVE  Foreseen(p)'
  <1> DEFINE due      == clock + RequeueAfter(run[p].obj.spec.schedule, clock)
             deadline == Deadline(api[p].spec.schedule, api[p].last)
  <1>1. /\ clock \in Nat /\ wake[p] \in Nat /\ api[p].last \in Nat
        /\ api[p].spec.schedule \in Schedules /\ run[p].obj.spec.schedule \in Schedules
        /\ api[p].last <= clock
    BY Typed, CallTyped, ReconcilerAssumption DEF TypeOK, LastPast, Object
  <1>2. due \in Nat /\ due > 0
    BY <1>1, RequeueAfterBounds, ScheduleAssumption
  <1>3. wake'[p] = IF wake[p] = NoWake \/ due < wake[p] THEN due ELSE wake[p]
    BY DEF Returns
  <1>4. CASE wake[p] # NoWake /\ wake[p] <= deadline
    <2>1. deadline \in Nat
      BY <1>1, ScheduleAssumption, CronNextIsNext DEF Deadline
    <2>2. wake'[p] # NoWake /\ wake'[p] <= deadline
      BY <1>1, <1>2, <1>3, <1>4, <2>1 DEF NoWake
    <2> QED
      BY <2>2 DEF Foreseen, Returns
  <1>5. CASE /\ run[p].obj.spec = api[p].spec
             /\ ~ShouldRun(api[p].spec.schedule, api[p].last, clock)
    <2>1. due <= deadline
      BY <1>1, <1>5, RequeueMeetsDeadline
    <2>2. deadline \in Nat
      BY <1>1, ScheduleAssumption, CronNextIsNext DEF Deadline
    <2>3. wake'[p] # NoWake /\ wake'[p] <= deadline
      BY <1>1, <1>2, <1>3, <2>1, <2>2 DEF NoWake
    <2> QED
      BY <2>3 DEF Foreseen, Returns
  <1> QED
    BY <1>4, <1>5 DEF Foreseen, Returns

LEMMA NextForeseen ==
    ASSUME Prompt, Inv, LastPast, \A p \in Prs : MidwayPhased(p) /\ Foreseen(p),
           [Next]_vars
    PROVE  \A p \in Prs : MidwayPhased(p)' /\ Foreseen(p)'
  <1> USE DEF store, cluster
  <1> DEFINE Goal == \A p \in Prs : MidwayPhased(p)' /\ Foreseen(p)'
  <1>0. /\ run \in [Prs -> Call] /\ wake \in [Prs -> Nat] /\ fresh \in [Prs -> BOOLEAN]
        /\ \A p \in Prs : CacheAgrees(p)
    BY Typed DEF TypeOK, CopiesAgree
  <1>1. CASE Tick
    BY <1>1 DEF Tick, MidwayPhased, Foreseen
  <1>2. ASSUME NEW p \in Prs, WakeUp(p) \/ SyncPrs(p) PROVE Goal
    <2>1. /\ p \in queue' /\ queue \subseteq queue' /\ UNCHANGED <<clock, api, alive, run>>
          /\ \A q \in Prs \ {p} : wake'[q] = wake[q] /\ fresh'[q] = fresh[q]
      BY <1>0, <1>2 DEF WakeUp, SyncPrs
    <2> QED
      BY <2>1 DEF MidwayPhased, Foreseen
  <1>3. ASSUME NEW p \in Prs, Take(p) PROVE Goal
    <2>1. /\ UNCHANGED <<clock, api, alive, fresh>>
          /\ \A q \in Prs \ {p} : MidwayPhased(q)' /\ Foreseen(q)'
      BY <1>3, TakeMoves, SparedForeseen
    <2>2. MidwayPhased(p)'
      <3>1. run'[p].pc \in {"idle", "analyzing", "return"}
        BY <1>3, TakeMoves
      <3> QED
        BY <3>1 DEF MidwayPhased, Midway
    <2>3. ASSUME p \in cached, p \in alive, fresh[p] PROVE Foreseen(p)'
      <3>1. cache[p] = api[p]
        BY <1>0, <2>3 DEF CacheAgrees
      <3>2. CASE ShouldRun(api[p].spec.schedule, api[p].last, clock)
        <4>1. run'[p].pc = "analyzing"
          BY <1>3, <2>3, <3>1, <3>2, TakeMoves
        <4> QED
          BY <4>1 DEF Foreseen
      <3>3. CASE ~ShouldRun(api[p].spec.schedule, api[p].last, clock)
        <4>1. run'[p].pc = "return" /\ run'[p].obj.spec = api[p].spec
          BY <1>3, <2>3, <3>1, <3>3, TakeMoves
        <4> QED
          BY <2>1, <3>3, <4>1 DEF Foreseen
      <3> QED
        BY <3>2, <3>3
    <2>4. ASSUME ~(p \in alive /\ fresh[p]) PROVE Foreseen(p)'
      BY <2>1, <2>4 DEF Foreseen
    <2>5. p \in alive /\ fresh[p] => p \in cached
      BY <1>0 DEF CacheAgrees
    <2> QED
      BY <2>1, <2>2, <2>3, <2>4, <2>5
  <1>4. ASSUME NEW p \in Prs, Reconcile(p) PROVE Goal
    <2>1. /\ UNCHANGED <<clock, alive>>
          /\ \A q \in Prs \ {p} : MidwayPhased(q)' /\ Foreseen(q)'
      <3>1. UNCHANGED alive
        BY <1>4 DEF Reconcile, WriteAnalyzing, Discover, WriteError, WriteNoPods,
                    WriteRecommending, Generate, Claim, GetWorkload, UpdateWorkload,
                    EndApply, Finish, Return, UpdatePhase
      <3> QED
        BY <1>4, <3>1, ReconcileMoves, SparedForeseen
    <2>2. CASE Fails(p)
      BY <2>1, <2>2, IdleIsOld DEF Fails, MidwayPhased, Foreseen
    <2>3. CASE Writes(p)
      BY <2>1, <2>3 DEF Writes, MidwayPhased, Foreseen, Midway, Working, Steps
    <2>4. CASE Computes(p)
      BY <2>1, <2>4 DEF Computes, MidwayPhased, Foreseen, Midway, Steps
    <2>5. CASE Returns(p)
      <3>1. MidwayPhased(p)'
        BY <2>5, IdleIsOld DEF Returns, MidwayPhased
      <3> QED
        BY <2>1, <2>5, <3>1, ReturnForeseen
    <2> QED
      BY <1>4, <2>2, <2>3, <2>4, <2>5, ReconcileMoves
  <1>5. ASSUME NEW w \in Workloads,
               SyncWorkload(w) \/ EditTemplate(w) \/ Scale(w) \/ PodEvent(w)
        PROVE  Goal
    BY <1>5, WorkloadsSpare, SparedForeseen
  <1>6. ASSUME NEW p \in Prs, EditSpec(p) \/ Delete(p) PROVE Goal
    <2>1. MidwayPhased(p)' /\ Foreseen(p)'
      BY <1>6, EditOutdates DEF MidwayPhased, Foreseen
    <2> QED
      BY <1>6, <2>1, EditOutdates, SparedForeseen
  <1>7. CASE Restart
    BY <1>7, IdleIsOld DEF Restart, MidwayPhased, Foreseen
  <1>8. CASE UNCHANGED vars
    BY <1>8 DEF vars, MidwayPhased, Foreseen
  <1> QED
    BY <1>1, <1>2, <1>3, <1>4, <1>5, <1>6, <1>7, <1>8 DEF Next, Others

\* If no time passes between the two readings of the clock in a call, a resource
\* at rest has its timer set for its next slot, one minute late at most, whatever
\* fails, is refused, edited or restarted (requeueAfter, lines 203-226).
THEOREM NoSlotEverMissed == ASSUME Prompt PROVE Spec => []NoSlotMissed
  <1> DEFINE AllForeseen == \A p \in Prs : MidwayPhased(p) /\ Foreseen(p)
             Claims == \A p \in Prs : api'[p].last # api[p].last =>
                         /\ ShouldRun(api[p].spec.schedule, api[p].last, api'[p].last)
                         /\ api'[p].last \in 1..clock
  <1>1. Init => AllForeseen /\ LastPast
    <2> SUFFICES ASSUME Init PROVE AllForeseen /\ LastPast
      OBVIOUS
    <2>1. \A p \in Prs : run[p] = Idle /\ p \in queue
      BY DEF Init
    <2>2. AllForeseen
      BY <2>1, IdleIsOld DEF MidwayPhased, Foreseen
    <2>3. \A s \in Specs : New(s).last = 0
      BY DEF New, Never
    <2>4. LastPast
      BY <2>3 DEF Init, LastPast
    <2> QED
      BY <2>2, <2>4
  <1>2. Inv /\ LastPast /\ AllForeseen /\ [Next]_vars => AllForeseen'
    BY NextForeseen
  <1>3. Inv /\ LastPast /\ [Next]_vars /\ [Claims]_vars => LastPast'
    <2> SUFFICES ASSUME Inv, LastPast, [Next]_vars, [Claims]_vars PROVE LastPast'
      OBVIOUS
    <2>1. clock \in Nat /\ api \in [Prs -> Object]
      BY Typed
    <2>2. clock' \in {clock, clock + 1}
      BY WorkloadsSpare, EditOutdates, TakeMoves, ReconcileMoves
         DEF Next, Others, Tick, WakeUp, SyncPrs, Restart, vars
    <2>3. \A p \in Prs : api'[p].last # api[p].last => api'[p].last \in 1..clock
      BY DEF vars
    <2>4. \A p \in Prs : api[p].last \in Nat
      BY <2>1 DEF Object
    <2> QED
      BY <2>1, <2>2, <2>3, <2>4 DEF LastPast
  <1>4. Inv /\ AllForeseen => NoSlotMissed
    BY DEF Foreseen, NoSlotMissed, Quiet
  <1>5. Spec => []Inv
    BY TypeInvariant, CopiesStayInAgreement, PTL DEF Inv
  <1>6. Spec => [][Claims]_vars
    BY NoSlotClaimedTwice DEF OneAnalysisPerSlot
  <1> QED
    BY <1>1, <1>2, <1>3, <1>4, <1>5, <1>6, PTL DEF Spec

-----------------------------------------------------------------------------
(* The phase settles.                                                      *)

\* Exactly the analyses under way show in the stored phases, and none of them
\* works on an old copy.
Orderly(p) ==
    /\ run[p].pc \in Midway => run[p].cur
    /\ api[p].phase \in Working => run[p].pc \in Midway

LEMMA SparedOrderly ==
    ASSUME NEW q \in Prs, Spared(q), Orderly(q)
    PROVE  Orderly(q)'
  BY DEF Spared, Orderly

\* Faults and changes by users are counted and never taken back.
LEMMA CountsGrow ==
    ASSUME Inv, [Next]_vars
    PROVE  /\ faults' = 0 => faults = 0 /\ ~Faulty
           /\ edits' = 0 => edits = 0 /\ ~Edited
  <1> DEFINE Counted == (faults' = faults \/ Faulty) /\ (edits' = edits \/ Edited)
  <1>0. ASSUME Tick \/ UNCHANGED vars PROVE Counted
    BY <1>0 DEF Tick, vars
  <1>1. ASSUME Restart PROVE Counted
    BY <1>1 DEF Restart
  <1>2. ASSUME NEW p \in Prs, WakeUp(p) \/ SyncPrs(p) \/ Take(p) PROVE Counted
    BY <1>2 DEF WakeUp, SyncPrs, Take
  <1>3. ASSUME NEW p \in Prs, Reconcile(p) PROVE Counted
    <2>1. \A obj, then : UpdatePhase(p, obj, then) => Counted
      BY DEF UpdatePhase
    <2>2. CASE WriteAnalyzing(p) \/ WriteNoPods(p) \/ WriteRecommending(p) \/ Claim(p) \/ Finish(p)
      BY <2>1, <2>2 DEF WriteAnalyzing, WriteNoPods, WriteRecommending, Claim, Finish
    <2>3. CASE Discover(p)
      BY <2>3, Zenon DEF Discover
    <2>4. CASE WriteError(p)
      BY <2>4, Zenon DEF WriteError
    <2>5. CASE Generate(p)
      BY <2>5, Zenon DEF Generate
    <2>6. CASE \E w \in Workloads : GetWorkload(p, w)
      BY <2>6, Zenon DEF GetWorkload
    <2>7. CASE UpdateWorkload(p)
      BY <2>7, Zenon DEF UpdateWorkload
    <2>8. CASE EndApply(p)
      BY <2>8, Zenon DEF EndApply
    <2>9. CASE Return(p)
      BY <2>9, Zenon DEF Return
    <2> QED
      BY <1>3, <2>2, <2>3, <2>4, <2>5, <2>6, <2>7, <2>8, <2>9 DEF Reconcile
  <1>4. ASSUME NEW w \in Workloads,
               SyncWorkload(w) \/ EditTemplate(w) \/ Scale(w) \/ PodEvent(w)
        PROVE  Counted
    BY <1>4 DEF SyncWorkload, EditTemplate, Scale, PodEvent
  <1>5. ASSUME NEW p \in Prs, EditSpec(p) \/ Delete(p) PROVE Counted
    BY <1>5 DEF EditSpec, Delete
  <1> HIDE DEF Counted
  <1>6. Counted
    BY <1>0, <1>1, <1>2, <1>3, <1>4, <1>5 DEF Next, Others
  <1>7. faults \in Nat /\ edits \in Nat
    BY Typed DEF TypeOK
  <1> QED
    BY <1>6, <1>7 DEF Counted, Faulty, Edited

LEMMA NextOrderly ==
    ASSUME ~Faulty, ~Edited, Inv, \A p \in Prs : Orderly(p), [Next]_vars
    PROVE  \A p \in Prs : Orderly(p)'
  <1> USE DEF store, cluster
  <1> DEFINE Goal == \A p \in Prs : Orderly(p)'
  <1>0. ~Faulty /\ ~Edited
    OBVIOUS
  <1>1. ASSUME UNCHANGED <<api, run>> PROVE Goal
    BY <1>1 DEF Orderly
  <1>2. CASE Tick \/ UNCHANGED vars
    BY <1>1, <1>2 DEF Tick, vars
  <1>3. ASSUME NEW p \in Prs, WakeUp(p) \/ SyncPrs(p) PROVE Goal
    BY <1>1, <1>3 DEF WakeUp, SyncPrs
  <1>4. ASSUME NEW p \in Prs, Take(p) PROVE Goal
    <2>1. run'[p].pc \in {"idle", "analyzing", "return"}
      BY <1>4, TakeMoves
    <2>2. api[p].phase \notin Working
      BY <1>4, TakeMoves DEF Orderly, Midway
    <2>3. Orderly(p)'
      BY <1>4, <2>1, <2>2, TakeMoves DEF Orderly, Midway
    <2> QED
      BY <1>4, <2>3, TakeMoves, SparedOrderly
  <1>5. ASSUME NEW p \in Prs, Reconcile(p) PROVE Goal
    <2>1. ASSUME Fails(p) PROVE Orderly(p)'
      <3>1. run[p].pc \notin Midway \/ api'[p].phase = "Error"
        BY <1>0, <2>1 DEF Fails, Orderly
      <3>2. api'[p].phase \notin Working
        BY <1>0, <2>1, <3>1 DEF Fails, Orderly, Working
      <3> QED
        BY <2>1, <3>2, IdleIsOld DEF Fails, Orderly, Midway
    <2>2. ASSUME Writes(p) PROVE Orderly(p)'
      BY <2>2 DEF Writes, Orderly, Working, Midway
    <2>3. ASSUME Computes(p) PROVE Orderly(p)'
      BY <2>3 DEF Computes, Orderly
    <2>4. ASSUME Returns(p) PROVE Orderly(p)'
      BY <2>4, IdleIsOld DEF Returns, Orderly, Midway
    <2>5. Orderly(p)'
      BY <1>5, <2>1, <2>2, <2>3, <2>4, ReconcileMoves
    <2> QED
      BY <1>5, <2>5, ReconcileMoves, SparedOrderly
  <1>6. ASSUME NEW w \in Workloads,
               SyncWorkload(w) \/ EditTemplate(w) \/ Scale(w) \/ PodEvent(w)
        PROVE  Goal
    BY <1>6, WorkloadsSpare, SparedOrderly
  <1>7. ASSUME NEW p \in Prs, EditSpec(p) \/ Delete(p) PROVE FALSE
    BY <1>0, <1>7 DEF EditSpec, Delete
  <1>8. CASE Restart
    BY <1>0, <1>8 DEF Restart
  <1> QED
    BY <1>2, <1>3, <1>4, <1>5, <1>6, <1>7, <1>8 DEF Next, Others

\* As long as there was no fault and no change by a user, a resource at rest is in
\* no phase of an analysis under way: every call that stores one goes on to store
\* Completed (updatePhase, lines 790-801, and its calls in Reconcile, 93-170).
THEOREM PhasesSettle == Spec => []PhaseSettlesUndisturbed
  <1> DEFINE AllOrderly == faults = 0 /\ edits = 0 => \A p \in Prs : Orderly(p)
  <1>1. Init => AllOrderly
    <2> SUFFICES ASSUME Init PROVE AllOrderly
      OBVIOUS
    <2>1. \A s \in Specs : New(s).phase = ""
      BY DEF New
    <2>2. \A p \in Prs : api[p].phase = "" /\ run[p] = Idle
      <3> SUFFICES ASSUME NEW p \in Prs PROVE api[p].phase = "" /\ run[p] = Idle
        OBVIOUS
      <3>1. \E s \in Specs : api[p] = New(s)
        BY DEF Init
      <3>2. run[p] = Idle
        BY DEF Init
      <3> QED
        BY <2>1, <3>1, <3>2
    <2> QED
      BY <2>2, IdleIsOld DEF Orderly, Midway, Working
  <1>2. Inv /\ AllOrderly /\ [Next]_vars => AllOrderly'
    BY NextOrderly, CountsGrow
  <1>3. AllOrderly => PhaseSettlesUndisturbed
    BY DEF Orderly, PhaseSettles, PhaseSettlesUndisturbed, Quiet, Working, Midway
  <1>4. Spec => []Inv
    BY TypeInvariant, CopiesStayInAgreement, PTL DEF Inv
  <1> QED
    BY <1>1, <1>2, <1>3, <1>4, PTL DEF Spec
=============================================================================
