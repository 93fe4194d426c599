------------------------------ MODULE Schedule ------------------------------
(***************************************************************************)
(* How a window follows its clock.  evaluateWindow decides from two cron   *)
(* expressions whether the window is asleep and when that should flip;     *)
(* requeueAfter turns that moment into the delay before the next pass; the *)
(* work queue brings the window back after that delay, on an event, or     *)
(* with backoff after an error.                                            *)
(*                                                                         *)
(* Time is counted in units within a repeating Period (the week of a cron  *)
(* expression); distances in time are relative, so behaviours are infinite *)
(* and the state space is not.  A cron expression is the set of units at   *)
(* which it fires; the empty set is one that parses and never fires.       *)
(***************************************************************************)
EXTENDS Requeue

CONSTANTS
    Period,      \* length of the cycle both expressions repeat in
    Schedules,   \* the [sleepAt, wakeAt] pairs that may be declared
    MaxPass,     \* bound: units a pass may last
    MaxBackoff   \* the rate limiter's longest delay

ASSUME PeriodAssumption   == Period \in Nat \ {0}
ASSUME ScheduleAssumption ==
    Schedules \subseteq [sleepAt : SUBSET (0 .. Period - 1),
                         wakeAt : SUBSET (0 .. Period - 1)]
ASSUME BoundAssumption    == MaxPass \in Nat /\ MaxBackoff \in Nat \ {0}

\* A pass carries the verdict it read, the units left until `next' as the clock
\* moves on, how long it has lasted, and whether its window is unedited since.
Pass == [asleep : BOOLEAN, left : Int \union {None}, age : 0 .. MaxPass, fresh : BOOLEAN]

ASSUME NoneAssumption == None \notin Pass \union Schedules

VARIABLES
    now,        \* the unit of the cycle the clock shows
    schedule,   \* the declared pair, None when an expression does not parse
    suspended,  \* spec.suspend
    up,         \* the controller runs
    queued,     \* the window is in the work queue
    due,        \* units until the queue takes it in again, None if no wait is pending
    pass,       \* the pass in progress, or None
    failed,     \* the last pass to end returned an error
    phase       \* status.phase

vars == <<now, schedule, suspended, up, queued, due, pass, failed, phase>>

TypeOK ==
    /\ now \in 0 .. Period - 1
    /\ schedule \in Schedules \union {None}
    /\ suspended \in BOOLEAN /\ up \in BOOLEAN /\ queued \in BOOLEAN /\ failed \in BOOLEAN
    /\ due \in (Nat \ {0}) \union {None}
    /\ pass \in Pass \union {None}
    /\ phase \in {"", "Awake", "Asleep"}

-----------------------------------------------------------------------------
(* evaluateWindow.                                                          *)

\* Mutant: a firing at t itself counts as the next one.
UntilNextOrNow(fires, t) ==
    IF fires = {} THEN None
    ELSE CHOOSE k \in 0 .. Period - 1 :
            /\ (t + k) % Period \in fires
            /\ \A j \in 0 .. k - 1 : (t + j) % Period \notin fires

\* Units from t to the next firing, strictly after t; None when there is none.
UntilNext(fires, t) ==
    IF fires = {} THEN None
    ELSE CHOOSE k \in 1 .. Period :
            /\ (t + k) % Period \in fires
            /\ \A j \in 1 .. k - 1 : (t + j) % Period \notin fires

\* time.Time.Before; never firing is the zero time, which is before any other.
Before(a, b) == b # None /\ (a = None \/ a < b)

\* Mutant: `next' is the other boundary.
EvaluateOther(s, t) ==
    LET toSleep == UntilNext(s.sleepAt, t)
        toWake  == UntilNext(s.wakeAt, t)
        asleep  == Before(toWake, toSleep)
    IN [asleep |-> asleep, next |-> IF asleep THEN toSleep ELSE toWake]

Evaluate(s, t) ==
    LET toSleep == UntilNext(s.sleepAt, t)
        toWake  == UntilNext(s.wakeAt, t)
        asleep  == Before(toWake, toSleep)
    IN [asleep |-> asleep, next |-> IF asleep THEN toWake ELSE toSleep]

PhaseOf(asleep) == IF asleep THEN "Asleep" ELSE "Awake"

-----------------------------------------------------------------------------
(* The controller and its work queue.                                       *)

Init ==
    /\ now \in 0 .. Period - 1
    /\ schedule \in Schedules
    /\ suspended = FALSE
    /\ up = TRUE
    /\ queued = TRUE       \* the first list of the informer enqueues every window
    /\ due = None
    /\ pass = None
    /\ failed = FALSE
    /\ phase = ""

\* Mutant: a phase the API does not have.
SkipSuspendedMarked ==
    /\ up /\ queued /\ pass = None
    /\ suspended
    /\ queued' = FALSE
    /\ phase' = "Suspended"
    /\ failed' = FALSE
    /\ UNCHANGED <<now, schedule, suspended, up, due, pass>>

\* A suspended window is marked so and not asked for again.
SkipSuspended ==
    /\ up /\ queued /\ pass = None
    /\ suspended
    /\ queued' = FALSE
    /\ phase' = ""
    /\ failed' = FALSE
    /\ UNCHANGED <<now, schedule, suspended, up, due, pass>>

\* A schedule that cannot be read is reported, the phase is left as it was, and
\* the window waits for an edit.
RejectSchedule ==
    /\ up /\ queued /\ pass = None
    /\ ~suspended /\ schedule = None
    /\ queued' = FALSE
    /\ failed' = FALSE
    /\ UNCHANGED <<now, schedule, suspended, up, due, pass, phase>>

BeginPass ==
    /\ up /\ queued /\ pass = None
    /\ ~suspended /\ schedule # None
    /\ queued' = FALSE
    /\ LET state == Evaluate(schedule, now)
       IN pass' = [asleep |-> state.asleep, left |-> state.next, age |-> 0, fresh |-> TRUE]
    /\ UNCHANGED <<now, schedule, suspended, up, due, failed, phase>>

\* Mutant: the pass returns no delay.
FinishPassForGood ==
    /\ pass # None
    /\ phase' = IF pass.fresh THEN PhaseOf(pass.asleep) ELSE phase
    /\ failed' = FALSE
    /\ pass' = None
    /\ UNCHANGED <<now, schedule, suspended, up, queued, due>>

\* The status is written unless the window was edited since it was read, and the
\* delay is computed from the clock at the end of the pass.
FinishPass ==
    /\ pass # None
    /\ phase' = IF pass.fresh THEN PhaseOf(pass.asleep) ELSE phase
    /\ due' = Requeued(due, RequeueAfter(pass.left))
    /\ failed' = FALSE
    /\ pass' = None
    /\ UNCHANGED <<now, schedule, suspended, up, queued>>

\* Mutant: an error is logged and swallowed.
FailPassSwallowed ==
    /\ pass # None
    /\ failed' = TRUE
    /\ pass' = None
    /\ UNCHANGED <<now, schedule, suspended, up, queued, due, phase>>

\* Any error returned by Reconcile: retried after the rate limiter's delay.
FailPass ==
    /\ pass # None
    /\ \E backoff \in 1 .. MaxBackoff : due' = Requeued(due, backoff)
    /\ failed' = TRUE
    /\ pass' = None
    /\ UNCHANGED <<now, schedule, suspended, up, queued, phase>>

Crash ==
    /\ up
    /\ up' = FALSE
    /\ queued' = FALSE /\ due' = None /\ pass' = None /\ failed' = FALSE
    /\ UNCHANGED <<now, schedule, suspended, phase>>

Restart ==
    /\ ~up
    /\ up' = TRUE
    /\ queued' = TRUE
    /\ UNCHANGED <<now, schedule, suspended, due, pass, failed, phase>>

-----------------------------------------------------------------------------
(* The clock, the declared window, and the watches.                         *)

\* A free worker takes a queued window at once, and a pass lasts at most MaxPass.
Tick ==
    /\ ~(up /\ queued /\ pass = None)
    /\ pass # None => pass.age < MaxPass
    /\ now' = (now + 1) % Period
    /\ queued' = (queued \/ Ended(due))
    /\ due' = Elapsed(due)
    /\ pass' = IF pass = None THEN None
               ELSE [pass EXCEPT !.age = @ + 1,
                                 !.left = IF @ = None THEN None ELSE @ - 1]
    /\ UNCHANGED <<schedule, suspended, up, failed, phase>>

\* The window is edited; the watch enqueues it.
Edit ==
    /\ \E s \in Schedules \union {None}, b \in BOOLEAN :
          /\ <<s, b>> # <<schedule, suspended>>
          /\ schedule' = s /\ suspended' = b
    /\ queued' = up
    /\ pass' = IF pass = None THEN None ELSE [pass EXCEPT !.fresh = FALSE]
    /\ UNCHANGED <<now, up, due, failed, phase>>

\* A Deployment or a WakeRequest of the namespace changed.
Event ==
    /\ up
    /\ queued' = TRUE
    /\ UNCHANGED <<now, schedule, suspended, up, due, pass, failed, phase>>

Next == \/ SkipSuspended \/ RejectSchedule \/ BeginPass \/ FinishPass \/ FailPass \/ Crash \/ Restart
        \/ Tick \/ Edit \/ Event

Spec == Init /\ [][Next]_vars

\* The clock does not stop, the worker finishes what it took, and the Deployment
\* that runs the controller restarts it.
Fairness == /\ WF_vars(Tick) /\ WF_vars(Restart)
            /\ WF_vars(SkipSuspended) /\ WF_vars(RejectSchedule)
            /\ WF_vars(BeginPass) /\ WF_vars(FinishPass)

FairSpec == Spec /\ Fairness

-----------------------------------------------------------------------------
(* What the schedule says, read forwards: the last boundary passed was a    *)
(* sleep, and no wake coincides with it.                                    *)

SinceLast(fires, t) ==
    CHOOSE k \in 0 .. Period - 1 :
        /\ (t - k) % Period \in fires
        /\ \A j \in 0 .. k - 1 : (t - j) % Period \notin fires

InsideWindow(s, t) == SinceLast(s.sleepAt, t) < SinceLast(s.wakeAt, t)

\* Every sleep comes out of a day and every wake out of a night: between two
\* sleeps there is a wake and between two wakes a sleep.
Alternates(s) ==
    /\ s.sleepAt # {} /\ s.wakeAt # {} /\ s.sleepAt \intersect s.wakeAt = {}
    /\ \A t \in s.sleepAt : ~InsideWindow(s, t - 1)
    /\ \A t \in s.wakeAt : InsideWindow(s, t - 1)

\* Looking only ahead, evaluateWindow is asleep exactly inside the window: what its
\* comment says of any pair of recurring schedules.
ReadsAnyPair ==
    schedule # None => Evaluate(schedule, now).asleep = InsideWindow(schedule, now)

Alternating == schedule # None /\ Alternates(schedule)

\* What is so: the verdict is right for the pairs that alternate.
ReadsTheSchedule ==
    Alternating => Evaluate(schedule, now).asleep = InsideWindow(schedule, now)

\* `next' is when the verdict flips: it stays what it is until then, and is the
\* other one from that unit on.
NextIsTheFlip == Alternating =>
    LET state == Evaluate(schedule, now) IN
    /\ \A k \in 0 .. state.next - 1 :
          Evaluate(schedule, (now + k) % Period).asleep = state.asleep
    /\ Evaluate(schedule, (now + state.next) % Period).asleep = ~state.asleep

-----------------------------------------------------------------------------
(* What the loop promises about time.                                       *)

Watching == up /\ ~suspended /\ schedule # None /\ ~queued /\ pass = None

\* An idle window that is neither suspended nor rejected always has its next pass arranged, after
\* an error as much as after a success: no event is needed to bring it back.
NeverForgotten == Watching => due # None

\* Drift is looked for at least every MaxGap, however far the next boundary is.
DriftIsLookedFor == Watching /\ ~failed => due <= MaxGap

\* The phase in status trails the schedule by at most this many units.
Lateness == IF Margin > MaxPass + MinGap THEN Margin ELSE MaxPass + MinGap

PhaseWithin(units) ==
    \E k \in 0 .. units :
        phase = PhaseOf(Evaluate(schedule, (now - k) % Period).asleep)

PhaseIsTimely == Watching /\ ~failed => PhaseWithin(Lateness)

\* After any crashes, errors and edits, and with no event to help, the phase
\* follows the schedule again for good; a pass under way adds its own length.
KeepsFollowing ==
    (<>[][~(Crash \/ FailPass \/ Edit \/ Event)]_vars) =>
        <>[](suspended \/ schedule = None \/ PhaseWithin(Lateness + MaxPass + 1))
=============================================================================
