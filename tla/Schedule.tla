------------------------------ MODULE Schedule ------------------------------
(***************************************************************************)
(* The two pure functions that decide when a PodRightSizing is analysed:   *)
(* shouldRunAnalysis and requeueAfter.  A cron expression is the set of    *)
(* instants at which it fires; the expression that does not parse and the  *)
(* one that never fires ("0 0 30 2 *") are both legal inputs of the code.  *)
(* Instants are positive naturals, whatever the unit.                      *)
(***************************************************************************)
EXTENDS Integers, FiniteSetsExt

CONSTANTS
    Schedules,          \* the cron expressions in use
    Malformed,          \* those that cron.ParseStandard rejects
    Fires,              \* Fires[s]: the instants at which s fires
    Minute, Hour, Day   \* the three durations the code names

ASSUME ScheduleAssumption ==
    /\ Malformed \subseteq Schedules
    /\ Fires \in [Schedules -> SUBSET Nat]
    /\ Minute \in Nat /\ Hour \in Nat /\ Day \in Nat
    /\ 0 < Minute /\ Minute < Hour /\ Hour < Day

Never    == 0           \* Status.LastAnalysisTime == nil
ZeroTime == 0           \* time.Time{}, before every instant

(* cron's Schedule.Next: the first firing strictly after t, and the zero   *)
(* time when the search finds none.                                        *)
CronNext(s, t) ==
    LET later == {f \in Fires[s] : f > t}
    IN  IF later = {} THEN ZeroTime ELSE Min(later)

ShouldRun(s, last, now) ==
    \/ last = Never
    \/ s \in Malformed    /\ now - last >= Hour
    \/ s \notin Malformed /\ now >= CronNext(s, last)

Clamp(wait) == IF wait > Day THEN Day ELSE IF wait < Minute THEN Minute ELSE wait

\* Mutant: looked at once a day.
RequeueDaily(s, now) == IF s \in Malformed THEN Hour ELSE Day

RequeueAfter(s, now) ==
    IF s \in Malformed THEN Hour ELSE Clamp(CronNext(s, now) - now)

(* The latest instant by which a resource analysed at last must be looked  *)
(* at again: its next firing, one minute late at most (the lower clamp),   *)
(* or two hours after a schedule that does not parse.                      *)
Deadline(s, last) ==
    IF s \in Malformed THEN last + 2 * Hour ELSE CronNext(s, last) + Minute
=============================================================================
