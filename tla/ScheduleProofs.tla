--------------------------- MODULE ScheduleProofs ---------------------------
(* Theorems about Schedule, for every cycle, every pair of expressions and *)
(* every setting of the delays.                                            *)
EXTENDS Schedule, TLAPS, WellFoundedInduction

-----------------------------------------------------------------------------
(* evaluateWindow looks for the next firing: there is one, and it is found.  *)

\* A set of natural numbers has a least element.
LEMMA LeastElement ==
    ASSUME NEW T \in SUBSET Nat, T # {}
    PROVE  \E x \in T : \A y \in T : x <= y
<1>1. IsWellFoundedOn(OpToRel(<, Nat), Nat)
  BY NatLessThanWellFounded
<1>2. PICK x \in T : \A y \in T : ~(<<y, x>> \in OpToRel(<, Nat))
  BY <1>1, WFMin
<1>3. \A y \in T : y \in Nat /\ x \in Nat /\ ~(y < x)
  BY <1>2 DEF OpToRel
<1> QED BY <1>3

\* The clock stays on the cycle.
LEMMA ClockRange == \A t \in Int : t % Period \in 0 .. Period - 1
<1>1. Period \in Nat /\ Period > 0
  BY PeriodAssumption
<1> QED BY <1>1

\* Within one cycle of any moment an expression that fires at all fires, and
\* UntilNext is the distance to the first firing.
LEMMA UntilNextIsFirst ==
    ASSUME NEW fires \in SUBSET (0 .. Period - 1), fires # {}, NEW t \in 0 .. Period - 1
    PROVE  /\ UntilNext(fires, t) \in 1 .. Period
           /\ (t + UntilNext(fires, t)) % Period \in fires
           /\ \A j \in 1 .. UntilNext(fires, t) - 1 : (t + j) % Period \notin fires
<1> DEFINE Hits == {k \in 1 .. Period : (t + k) % Period \in fires}
<1>1. Period \in Nat \ {0}
  BY PeriodAssumption
<1>2. Hits # {}
  <2>1. PICK f \in fires : f \in 0 .. Period - 1
    OBVIOUS
  <2>2. CASE f > t
    <3>1. f - t \in 1 .. Period /\ t + (f - t) = f
      BY <1>1, <2>1, <2>2
    <3>2. f % Period = f
      BY <1>1, <2>1
    <3> QED BY <3>1, <3>2
  <2>3. CASE f <= t
    <3>1. f + Period - t \in 1 .. Period /\ t + (f + Period - t) = f + Period
      BY <1>1, <2>1, <2>3
    <3>2. (f + Period) % Period = f
      BY <1>1, <2>1
    <3> QED BY <3>1, <3>2
  <2> QED BY <1>1, <2>1, <2>2, <2>3
<1>3. PICK k \in Hits : \A j \in Hits : k <= j
  <2>1. Hits \in SUBSET Nat
    BY <1>1
  <2> QED BY <1>2, <2>1, LeastElement
<1>4. /\ k \in 1 .. Period
      /\ (t + k) % Period \in fires
      /\ \A j \in 1 .. k - 1 : (t + j) % Period \notin fires
  BY <1>1, <1>3
<1> QED BY <1>4 DEF UntilNext

\* The verdict is a Boolean, and `next' a distance or never.
LEMMA EvaluateType ==
    ASSUME NEW s \in Schedules, NEW t \in 0 .. Period - 1
    PROVE  /\ Evaluate(s, t).asleep \in BOOLEAN
           /\ Evaluate(s, t).next \in Int \union {None}
<1>1. s.sleepAt \in SUBSET (0 .. Period - 1) /\ s.wakeAt \in SUBSET (0 .. Period - 1)
  BY ScheduleAssumption
<1>2. ASSUME NEW fires \in SUBSET (0 .. Period - 1)
      PROVE  UntilNext(fires, t) \in Int \union {None}
  <2>1. CASE fires = {}
    BY <2>1 DEF UntilNext
  <2>2. CASE fires # {}
    <3>1. UntilNext(fires, t) \in 1 .. Period
      BY <2>2, UntilNextIsFirst
    <3> QED BY <3>1, PeriodAssumption
  <2> QED BY <2>1, <2>2
<1> QED BY <1>1, <1>2 DEF Evaluate, Before

-----------------------------------------------------------------------------
(* requeueAfter.                                                            *)

\* The delay is never below MinGap, and so never zero, and never above MaxGap.
LEMMA RequeueBounds ==
    ASSUME NEW left \in Int \union {None}
    PROVE  RequeueAfter(left) \in MinGap .. MaxGap
BY GapAssumption, NeverAssumption DEF RequeueAfter

\* A positive delay is never dropped, and never lengthens a wait.
LEMMA RequeuedType ==
    ASSUME NEW wait \in (Nat \ {0}) \union {None}, NEW delay \in Nat \ {0}
    PROVE  /\ Requeued(wait, delay) \in Nat \ {0}
           /\ Requeued(wait, delay) <= delay
BY NeverAssumption DEF Requeued

-----------------------------------------------------------------------------
(* The next pass is always arranged.                                        *)

\* The first state is well typed.
LEMMA InitTypeOK == Init => TypeOK
BY PeriodAssumption, BoundAssumption DEF Init, TypeOK

\* The pass in progress is a record of the right fields.
LEMMA PassType ==
    ASSUME TypeOK, pass # None
    PROVE  /\ pass \in Pass
           /\ pass.asleep \in BOOLEAN
           /\ pass.left \in Int \union {None}
           /\ pass.age \in 0 .. MaxPass
           /\ pass.fresh \in BOOLEAN
<1>1. pass \in Pass
  BY DEF TypeOK
<1> QED BY <1>1 DEF Pass

\* A pass that ends arranges the next one, whether it succeeded or not.
LEMMA EndedPassIsArranged ==
    ASSUME TypeOK, FinishPass \/ FailPass
    PROVE  /\ due' \in Nat \ {0}
           /\ FinishPass => due' <= MaxGap
<1>1. due \in (Nat \ {0}) \union {None}
  BY DEF TypeOK
<1>2. CASE FinishPass
  <2>1. RequeueAfter(pass.left) \in Nat \ {0} /\ RequeueAfter(pass.left) <= MaxGap
    <3>1. pass.left \in Int \union {None}
      BY <1>2, PassType DEF FinishPass
    <3>2. RequeueAfter(pass.left) \in MinGap .. MaxGap
      BY <3>1, RequeueBounds
    <3> QED BY <3>2, GapAssumption
  <2>2. due' = Requeued(due, RequeueAfter(pass.left))
    BY <1>2 DEF FinishPass
  <2>3. due' \in Nat \ {0} /\ due' <= RequeueAfter(pass.left)
    BY <1>1, <2>1, <2>2, RequeuedType
  <2> QED BY <2>1, <2>3, GapAssumption
<1>3. CASE FailPass /\ ~FinishPass
  <2>1. PICK backoff \in 1 .. MaxBackoff : due' = Requeued(due, backoff)
    BY <1>3 DEF FailPass
  <2>2. backoff \in Nat \ {0}
    BY BoundAssumption
  <2> QED BY <1>1, <1>3, <2>1, <2>2, RequeuedType
<1> QED BY <1>2, <1>3

\* Every step keeps the types.
LEMMA NextTypeOK == TypeOK /\ [Next]_vars => TypeOK'
<1> SUFFICES ASSUME TypeOK, [Next]_vars PROVE TypeOK'
  OBVIOUS
<1>1. CASE SkipSuspended \/ RejectSchedule
  BY <1>1 DEF SkipSuspended, RejectSchedule, TypeOK
<1>2. CASE BeginPass
  <2>1. pass' \in Pass
    <3> DEFINE state == Evaluate(schedule, now)
    <3>1. state.asleep \in BOOLEAN /\ state.next \in Int \union {None}
      <4>1. schedule \in Schedules /\ now \in 0 .. Period - 1
        BY <1>2 DEF TypeOK, BeginPass
      <4> QED BY <4>1, EvaluateType
    <3>2. pass' = [asleep |-> state.asleep, left |-> state.next, age |-> 0, fresh |-> TRUE]
      BY <1>2 DEF BeginPass
    <3>3. 0 \in 0 .. MaxPass
      BY BoundAssumption
    <3> HIDE DEF state
    <3> QED BY <3>1, <3>2, <3>3 DEF Pass
  <2> QED BY <1>2, <2>1 DEF BeginPass, TypeOK
<1>3. CASE FinishPass
  <2>1. phase' \in {"", "Awake", "Asleep"}
    BY <1>3 DEF FinishPass, TypeOK, PhaseOf
  <2> QED BY <1>3, <2>1, EndedPassIsArranged DEF FinishPass, TypeOK
<1>4. CASE FailPass
  BY <1>4, EndedPassIsArranged DEF FailPass, TypeOK
<1>5. CASE Crash \/ Restart \/ Event
  BY <1>5 DEF Crash, Restart, Event, TypeOK
<1>6. CASE Tick
  <2>1. now' \in 0 .. Period - 1
    <3>1. now + 1 \in Int
      <4>1. now \in 0 .. Period - 1
        BY DEF TypeOK
      <4> QED BY <4>1, PeriodAssumption
    <3>2. now' = (now + 1) % Period
      BY <1>6 DEF Tick
    <3> QED BY <3>1, <3>2, ClockRange
  <2>2. due' \in (Nat \ {0}) \union {None}
    <3>1. due' = IF due \in {None, 1} THEN None ELSE due - 1
      BY <1>6 DEF Tick, Elapsed
    <3>2. due \in (Nat \ {0}) \union {None}
      BY DEF TypeOK
    <3> QED BY <3>1, <3>2
  <2>3. pass' \in Pass \union {None}
    <3>1. CASE pass = None
      BY <1>6, <3>1 DEF Tick
    <3>2. CASE pass # None
      <4> DEFINE left == IF pass.left = None THEN None ELSE pass.left - 1
      <4>1. pass' = [pass EXCEPT !.age = pass.age + 1, !.left = left]
        BY <1>6, <3>2 DEF Tick
      <4>2. left \in Int \union {None}
        BY <3>2, PassType
      <4>3. pass.age + 1 \in 0 .. MaxPass
        BY <1>6, <3>2, PassType, BoundAssumption DEF Tick
      <4> HIDE DEF left
      <4> QED BY <3>2, <4>1, <4>2, <4>3, PassType DEF Pass
    <3> QED BY <3>1, <3>2
  <2> QED BY <1>6, <2>1, <2>2, <2>3 DEF Tick, TypeOK
<1>7. CASE Edit
  <2>1. pass' \in Pass \union {None}
    <3>1. CASE pass = None
      BY <1>7, <3>1 DEF Edit
    <3>2. CASE pass # None
      BY <1>7, <3>2, PassType DEF Edit, Pass
    <3> QED BY <3>1, <3>2
  <2> QED BY <1>7, <2>1 DEF Edit, TypeOK
<1>8. CASE UNCHANGED vars
  BY <1>8 DEF vars, TypeOK
<1> QED BY <1>1, <1>2, <1>3, <1>4, <1>5, <1>6, <1>7, <1>8 DEF Next

\* Every reachable state of the loop is well typed.
THEOREM TypeCorrect == Spec => []TypeOK
<1> QED BY InitTypeOK, NextTypeOK, PTL DEF Spec

\* Every step keeps the next pass arranged, and arranged soon.
LEMMA NextArranged ==
    TypeOK /\ NeverForgotten /\ DriftIsLookedFor /\ [Next]_vars
        => NeverForgotten' /\ DriftIsLookedFor'
<1> SUFFICES ASSUME TypeOK, NeverForgotten, DriftIsLookedFor, [Next]_vars
             PROVE  NeverForgotten' /\ DriftIsLookedFor'
  OBVIOUS
<1> USE DEF NeverForgotten, DriftIsLookedFor, Watching
<1>1. CASE SkipSuspended \/ RejectSchedule
  <2>1. CASE SkipSuspended
    BY <2>1 DEF SkipSuspended
  <2>2. CASE RejectSchedule
    BY <2>2 DEF RejectSchedule
  <2> QED BY <1>1, <2>1, <2>2
<1>2. CASE BeginPass
  <2>1. pass' \in Pass
    <3>1. pass' \in Pass \union {None}
      BY NextTypeOK DEF TypeOK
    <3>2. pass' # None
      <4> DEFINE state == Evaluate(schedule, now)
                 started == [asleep |-> state.asleep, left |-> state.next, age |-> 0,
                             fresh |-> TRUE]
      <4>1. state.asleep \in BOOLEAN /\ state.next \in Int \union {None}
        <5>1. schedule \in Schedules /\ now \in 0 .. Period - 1
          BY <1>2 DEF TypeOK, BeginPass
        <5> QED BY <5>1, EvaluateType
      <4>2. 0 \in 0 .. MaxPass
        BY BoundAssumption
      <4>3. started \in Pass
        BY <4>1, <4>2 DEF Pass
      <4>4. pass' = started
        BY <1>2 DEF BeginPass
      <4> HIDE DEF started
      <4> QED BY <4>3, <4>4, NoneAssumption
    <3> QED BY <3>1, <3>2
  <2> QED BY <2>1, NoneAssumption
<1>3. CASE FinishPass \/ FailPass
  <2>1. due' # None
    BY <1>3, EndedPassIsArranged, NeverAssumption
  <2>2. ~failed' => due' <= MaxGap
    BY <1>3, EndedPassIsArranged DEF FailPass
  <2> QED BY <2>1, <2>2
<1>4. CASE Crash \/ Restart \/ Event
  BY <1>4 DEF Crash, Restart, Event
<1>5. CASE Edit
  <2>1. CASE up
    BY <1>5, <2>1 DEF Edit
  <2>2. CASE ~up
    BY <1>5, <2>2 DEF Edit
  <2> QED BY <2>1, <2>2
<1>6. CASE Tick
  <2>1. due' = IF due \in {None, 1} THEN None ELSE due - 1
    BY <1>6 DEF Tick, Elapsed
  <2>2. queued' = (queued \/ due = 1) /\ up' = up /\ suspended' = suspended
        /\ failed' = failed /\ schedule' = schedule
    BY <1>6 DEF Tick, Ended
  <2>3. pass' = None => pass = None
    <3>1. SUFFICES ASSUME pass # None PROVE pass' # None
      OBVIOUS
    <3> DEFINE left == IF pass.left = None THEN None ELSE pass.left - 1
    <3>2. pass' = [pass EXCEPT !.age = pass.age + 1, !.left = left]
      BY <1>6, <3>1 DEF Tick
    <3>3. left \in Int \union {None}
      BY <3>1, PassType
    <3>4. pass.age + 1 \in 0 .. MaxPass
      BY <1>6, <3>1, PassType, BoundAssumption DEF Tick
    <3> HIDE DEF left
    <3>5. pass' \in Pass
      BY <3>1, <3>2, <3>3, <3>4, PassType DEF Pass
    <3> QED BY <3>5, NoneAssumption
  <2>4. due \in (Nat \ {0}) \union {None} /\ MaxGap \in Nat
    BY GapAssumption DEF TypeOK
  <2>5. ASSUME Watching' PROVE Watching /\ due # 1 /\ due # None
    BY <2>2, <2>3, <2>5
  <2>6. ASSUME Watching' PROVE due' = due - 1 /\ due' \in Int /\ due' <= due
    BY <2>1, <2>4, <2>5, <2>6
  <2>7. Watching' => due' # None
    BY <2>6, NeverAssumption
  <2>8. Watching' /\ ~failed' => due' <= MaxGap
    BY <2>2, <2>4, <2>5, <2>6
  <2> QED BY <2>7, <2>8
<1>7. CASE UNCHANGED vars
  BY <1>7 DEF vars
<1> QED BY <1>1, <1>2, <1>3, <1>4, <1>5, <1>6, <1>7 DEF Next

LEMMA BothArranged == Spec => [](NeverForgotten /\ DriftIsLookedFor)
<1>1. Init => NeverForgotten /\ DriftIsLookedFor
  BY DEF Init, NeverForgotten, DriftIsLookedFor, Watching
<1> QED BY <1>1, InitTypeOK, NextTypeOK, NextArranged, PTL DEF Spec

\* Whatever the schedule, a watched window always has its next pass arranged: a boundary
\* that never comes, a slow pass or an error never leaves it waiting for an event.
THEOREM AlwaysArranged == Spec => []NeverForgotten
<1> QED BY BothArranged, PTL

\* And within MaxGap of a pass that succeeded, however far away the boundary is.
THEOREM DriftIsFound == Spec => []DriftIsLookedFor
<1> QED BY BothArranged, PTL

-----------------------------------------------------------------------------
(* Looking ahead and looking back.                                          *)

\* The remainder is the one number of the cycle that is whole cycles away.
LEMMA Wrap ==
    ASSUME NEW x \in 0 .. Period - 1
    PROVE  /\ x % Period = x
           /\ (x + Period) % Period = x
           /\ (x + Period + Period) % Period = x
           /\ (x - Period) % Period = x
           /\ (x - Period - Period) % Period = x
BY PeriodAssumption

\* A cycle later the clock shows the same.
LEMMA Periodic ==
    ASSUME NEW y \in -Period .. 2 * Period - 1
    PROVE  (y - Period) % Period = y % Period
<1>1. Period \in Nat \ {0}
  BY PeriodAssumption
<1>2. CASE y < 0
  <2>1. y + Period \in 0 .. Period - 1 /\ (y + Period) - Period = y
        /\ (y + Period) - Period - Period = y - Period
    BY <1>1, <1>2
  <2> QED BY <2>1, Wrap
<1>3. CASE y \in 0 .. Period - 1
  BY <1>3, Wrap
<1>4. CASE y >= Period
  <2>1. y - Period \in 0 .. Period - 1 /\ (y - Period) + Period = y
    BY <1>1, <1>4
  <2> QED BY <2>1, Wrap
<1> QED BY <1>1, <1>2, <1>3, <1>4

\* An expression that fires at all has fired within the cycle before any moment,
\* and SinceLast is the distance to its last firing.
LEMMA SinceLastIsLast ==
    ASSUME NEW fires \in SUBSET (0 .. Period - 1), fires # {}, NEW t \in -1 .. 2 * Period - 2
    PROVE  /\ SinceLast(fires, t) \in 0 .. Period - 1
           /\ (t - SinceLast(fires, t)) % Period \in fires
           /\ \A j \in 0 .. SinceLast(fires, t) - 1 : (t - j) % Period \notin fires
<1> DEFINE Hits == {k \in 0 .. Period - 1 : (t - k) % Period \in fires}
<1>1. Period \in Nat \ {0}
  BY PeriodAssumption
<1>2. Hits # {}
  <2>1. PICK f \in fires : f \in 0 .. Period - 1
    OBVIOUS
  <2>2. f % Period = f /\ (f + Period) % Period = f /\ (f - Period) % Period = f
    BY <2>1, Wrap
  <2>3. CASE t - f \in 0 .. Period - 1
    <3>1. t - (t - f) = f
      BY <1>1, <2>1
    <3> QED BY <2>2, <2>3, <3>1
  <2>4. CASE t - f < 0
    <3>1. t - f + Period \in 0 .. Period - 1 /\ t - (t - f + Period) = f - Period
      BY <1>1, <2>1, <2>4
    <3> QED BY <2>2, <3>1
  <2>5. CASE t - f >= Period
    <3>1. t - f - Period \in 0 .. Period - 1 /\ t - (t - f - Period) = f + Period
      BY <1>1, <2>1, <2>5
    <3> QED BY <2>2, <3>1
  <2> QED BY <1>1, <2>1, <2>3, <2>4, <2>5
<1>3. PICK k \in Hits : \A j \in Hits : k <= j
  <2>1. Hits \in SUBSET Nat
    BY <1>1
  <2> QED BY <1>2, <2>1, LeastElement
<1>4. /\ k \in 0 .. Period - 1
      /\ (t - k) % Period \in fires
      /\ \A j \in 0 .. k - 1 : (t - j) % Period \notin fires
  BY <1>1, <1>3
<1> QED BY <1>4 DEF SinceLast

\* Only one distance is that of the last firing.
LEMMA SinceLastUnique ==
    ASSUME NEW fires \in SUBSET (0 .. Period - 1), NEW t \in -1 .. 2 * Period - 2,
           NEW k \in 0 .. Period - 1, (t - k) % Period \in fires,
           \A j \in 0 .. k - 1 : (t - j) % Period \notin fires
    PROVE  SinceLast(fires, t) = k
<1>1. /\ SinceLast(fires, t) \in 0 .. Period - 1
      /\ (t - SinceLast(fires, t)) % Period \in fires
      /\ \A j \in 0 .. SinceLast(fires, t) - 1 : (t - j) % Period \notin fires
  BY SinceLastIsLast
<1>2. ~(SinceLast(fires, t) < k) /\ ~(k < SinceLast(fires, t))
  BY <1>1, PeriodAssumption
<1> QED BY <1>1, <1>2, PeriodAssumption

\* Nor is there a second nearest firing ahead.
LEMMA UntilNextUnique ==
    ASSUME NEW fires \in SUBSET (0 .. Period - 1), NEW t \in 0 .. Period - 1,
           NEW k \in 1 .. Period, (t + k) % Period \in fires,
           \A j \in 1 .. k - 1 : (t + j) % Period \notin fires
    PROVE  UntilNext(fires, t) = k
<1>1. /\ UntilNext(fires, t) \in 1 .. Period
      /\ (t + UntilNext(fires, t)) % Period \in fires
      /\ \A j \in 1 .. UntilNext(fires, t) - 1 : (t + j) % Period \notin fires
  BY UntilNextIsFirst
<1> DEFINE l == UntilNext(fires, t)
<1> HIDE DEF l
<1>2. /\ l \in 1 .. Period
      /\ (t + l) % Period \in fires
      /\ \A j \in 1 .. l - 1 : (t + j) % Period \notin fires
  BY <1>1 DEF l
<1>3. ASSUME l < k PROVE FALSE
  <2>1. l \in 1 .. k - 1
    BY <1>2, <1>3, PeriodAssumption
  <2> QED BY <1>2, <2>1
<1>4. ASSUME k < l PROVE FALSE
  <2>1. k \in 1 .. l - 1
    BY <1>2, <1>4, PeriodAssumption
  <2> QED BY <1>2, <2>1
<1>5. l = k
  BY <1>2, <1>3, <1>4, PeriodAssumption
<1> QED BY <1>5 DEF l

\* While an expression does not fire, its last firing recedes unit by unit.
LEMMA LastRecedes ==
    ASSUME NEW fires \in SUBSET (0 .. Period - 1), fires # {}, NEW t \in 0 .. Period - 1,
           NEW a \in 1 .. Period, \A j \in 1 .. a - 1 : (t + j) % Period \notin fires
    PROVE  SinceLast(fires, ((t + a) % Period) - 1) = SinceLast(fires, t) + a - 1
<1>1. Period \in Nat \ {0}
  BY PeriodAssumption
<1> DEFINE u == t + a - 1
           k == SinceLast(fires, u)
<1>2. u \in Int /\ u \in 0 .. 2 * Period - 2
  BY <1>1
<1>3. /\ k \in 0 .. Period - 1
      /\ (u - k) % Period \in fires
      /\ \A j \in 0 .. k - 1 : (u - j) % Period \notin fires
  <2>1. u \in -1 .. 2 * Period - 2
    BY <1>1, <1>2
  <2> HIDE DEF u
  <2> QED BY <2>1, SinceLastIsLast
<1>4. SinceLast(fires, t) = k - (a - 1)
  <2>1. k >= a - 1
    <3>1. SUFFICES ASSUME k < a - 1 PROVE FALSE
      BY <1>1, <1>3
    <3>2. a - 1 - k \in 1 .. a - 1 /\ t + (a - 1 - k) = u - k
      BY <1>1, <1>3, <3>1
    <3> QED BY <1>3, <3>2
  <2>2. k - (a - 1) \in 0 .. Period - 1 /\ t - (k - (a - 1)) = u - k
    BY <1>1, <1>3, <2>1
  <2>3. ASSUME NEW j \in 0 .. (k - (a - 1)) - 1
        PROVE  (t - j) % Period \notin fires
    <3>1. j + (a - 1) \in 0 .. k - 1 /\ u - (j + (a - 1)) = t - j
      BY <1>1, <1>3, <2>1
    <3> QED BY <1>3, <3>1
  <2>4. t \in -1 .. 2 * Period - 2
    BY <1>1
  <2> HIDE DEF k, u
  <2> QED BY <1>3, <2>2, <2>3, <2>4, SinceLastUnique
<1>5. SinceLast(fires, ((t + a) % Period) - 1) = k
  <2>1. CASE t + a < Period
    <3>1. (t + a) % Period = t + a
      BY <1>1, <2>1, Wrap
    <3> QED BY <3>1
  <2>2. CASE t + a >= Period
    <3>1. t + a - Period \in 0 .. Period - 1 \/ t + a = 2 * Period
      BY <1>1, <2>2
    <3>2. t + a # 2 * Period
      BY <1>1
    <3>3. (t + a) % Period = t + a - Period
      <4>1. (t + a - Period) + Period = t + a
        BY <1>1
      <4> QED BY <3>1, <3>2, <4>1, Wrap
    <3>4. ((t + a) % Period) - 1 = u - Period /\ u - Period \in -1 .. 2 * Period - 2
      BY <1>1, <2>2, <3>3
    <3>5. ASSUME NEW j \in 0 .. Period - 1
          PROVE  ((u - Period) - j) % Period = (u - j) % Period
      <4>1. u - j \in -Period .. 2 * Period - 1 /\ (u - Period) - j = (u - j) - Period
        BY <1>1, <1>2
      <4> QED BY <4>1, Periodic
    <3>6. \A j \in 0 .. k - 1 : j \in 0 .. Period - 1
      BY <1>1, <1>3
    <3> HIDE DEF u, k
    <3>7. /\ ((u - Period) - k) % Period \in fires
          /\ \A j \in 0 .. k - 1 : ((u - Period) - j) % Period \notin fires
      BY <1>3, <3>5, <3>6
    <3> QED BY <1>3, <3>4, <3>7, SinceLastUnique
  <2> QED BY <1>1, <2>1, <2>2
<1>6. SinceLast(fires, t) \in Int
  BY <1>1, <1>3, <1>4
<1> QED BY <1>1, <1>3, <1>4, <1>5

\* While it does not fire, its next firing approaches unit by unit.
LEMMA NextApproaches ==
    ASSUME NEW fires \in SUBSET (0 .. Period - 1), fires # {}, NEW t \in 0 .. Period - 1,
           NEW a \in 0 .. Period - 1, a < UntilNext(fires, t)
    PROVE  UntilNext(fires, (t + a) % Period) = UntilNext(fires, t) - a
<1>1. Period \in Nat \ {0}
  BY PeriodAssumption
<1> DEFINE k == UntilNext(fires, t)
           u == (t + a) % Period
<1>2. /\ k \in 1 .. Period
      /\ (t + k) % Period \in fires
      /\ \A j \in 1 .. k - 1 : (t + j) % Period \notin fires
  BY UntilNextIsFirst
<1>3. u \in 0 .. Period - 1 /\ (u = t + a \/ u = t + a - Period)
  <2>1. CASE t + a < Period
    BY <1>1, <2>1, Wrap
  <2>2. CASE t + a >= Period
    <3>1. t + a - Period \in 0 .. Period - 1 /\ (t + a - Period) + Period = t + a
      BY <1>1, <2>2
    <3> QED BY <3>1, Wrap
  <2> QED BY <1>1, <2>1, <2>2
<1>4. ASSUME NEW j \in 1 .. k - a
      PROVE  (u + j) % Period = (t + (a + j)) % Period
  <2>1. CASE u = t + a
    BY <1>1, <2>1
  <2>2. CASE u = t + a - Period
    <3> HIDE DEF k, u
    <3>1. t + (a + j) \in -Period .. 2 * Period - 1 /\ u + j = (t + (a + j)) - Period
      BY <1>1, <1>2, <2>2
    <3> QED BY <3>1, Periodic
  <2> QED BY <1>3, <2>1, <2>2
<1> HIDE DEF k, u
<1>5. /\ k - a \in 1 .. Period
      /\ a + (k - a) = k
      /\ k - a \in 1 .. k - a
      /\ \A j \in 1 .. (k - a) - 1 : a + j \in 1 .. k - 1 /\ j \in 1 .. k - a
  BY <1>1, <1>2 DEF k
<1>6. /\ (u + (k - a)) % Period \in fires
      /\ \A j \in 1 .. (k - a) - 1 : (u + j) % Period \notin fires
  BY <1>2, <1>4, <1>5
<1>7. UntilNext(fires, u) = k - a
  BY <1>3, <1>5, <1>6, UntilNextUnique
<1> QED BY <1>7 DEF k, u

\* For a pair that alternates, the nearer firing ahead is of the other kind than
\* the nearer firing behind: the wake that ends the night comes out of a night.
LEMMA AheadIsBehind ==
    ASSUME NEW s \in Schedules, Alternates(s), NEW t \in 0 .. Period - 1
    PROVE  Evaluate(s, t).asleep = InsideWindow(s, t)
<1> DEFINE S == s.sleepAt
           W == s.wakeAt
           a == UntilNext(S, t)
           b == UntilNext(W, t)
<1>1. Period \in Nat \ {0}
  BY PeriodAssumption
<1>2. /\ S \in SUBSET (0 .. Period - 1) /\ W \in SUBSET (0 .. Period - 1)
      /\ S # {} /\ W # {} /\ S \intersect W = {}
      /\ \A f \in S : ~InsideWindow(s, f - 1)
      /\ \A f \in W : InsideWindow(s, f - 1)
  BY ScheduleAssumption DEF Alternates
<1>3. /\ a \in 1 .. Period /\ (t + a) % Period \in S
      /\ \A j \in 1 .. a - 1 : (t + j) % Period \notin S
  BY <1>2, UntilNextIsFirst
<1>4. /\ b \in 1 .. Period /\ (t + b) % Period \in W
      /\ \A j \in 1 .. b - 1 : (t + j) % Period \notin W
  BY <1>2, UntilNextIsFirst
<1>5. SinceLast(S, t) \in 0 .. Period - 1 /\ SinceLast(W, t) \in 0 .. Period - 1
  <2>1. t \in -1 .. 2 * Period - 2
    BY <1>1
  <2> QED BY <1>2, <2>1, SinceLastIsLast
<1>6. a # b
  BY <1>2, <1>3, <1>4
<1> HIDE DEF a, b
<1>7. CASE b < a
  <2>1. \A j \in 1 .. b - 1 : (t + j) % Period \notin S
    <3>1. \A j \in 1 .. b - 1 : j \in 1 .. a - 1
      BY <1>1, <1>3, <1>4, <1>7
    <3> QED BY <1>3, <1>4, <3>1
  <2>2. /\ SinceLast(S, ((t + b) % Period) - 1) = SinceLast(S, t) + b - 1
        /\ SinceLast(W, ((t + b) % Period) - 1) = SinceLast(W, t) + b - 1
    BY <1>2, <1>4, <2>1, LastRecedes
  <2>3. SinceLast(S, ((t + b) % Period) - 1) < SinceLast(W, ((t + b) % Period) - 1)
    BY <1>2, <1>4 DEF InsideWindow
  <2>4. SinceLast(S, t) < SinceLast(W, t)
    BY <1>1, <1>4, <1>5, <2>2, <2>3
  <2>5. Before(b, a)
    BY <1>3, <1>4, <1>7, NeverAssumption DEF Before
  <2>6. Evaluate(s, t).asleep = Before(b, a)
    BY DEF Evaluate, a, b
  <2> QED BY <2>4, <2>5, <2>6 DEF InsideWindow
<1>8. CASE a < b
  <2>1. \A j \in 1 .. a - 1 : (t + j) % Period \notin W
    <3>1. \A j \in 1 .. a - 1 : j \in 1 .. b - 1
      BY <1>1, <1>3, <1>4, <1>8
    <3> QED BY <1>3, <1>4, <3>1
  <2>2. /\ SinceLast(S, ((t + a) % Period) - 1) = SinceLast(S, t) + a - 1
        /\ SinceLast(W, ((t + a) % Period) - 1) = SinceLast(W, t) + a - 1
    BY <1>2, <1>3, <2>1, LastRecedes
  <2>3. ~(SinceLast(S, ((t + a) % Period) - 1) < SinceLast(W, ((t + a) % Period) - 1))
    BY <1>2, <1>3 DEF InsideWindow
  <2>4. ~(SinceLast(S, t) < SinceLast(W, t))
    BY <1>1, <1>3, <1>5, <2>2, <2>3
  <2>5. Before(b, a) = FALSE
    BY <1>1, <1>3, <1>4, <1>8, NeverAssumption DEF Before
  <2>6. Evaluate(s, t).asleep = Before(b, a)
    BY DEF Evaluate, a, b
  <2>7. InsideWindow(s, t) = FALSE
    BY <2>4 DEF InsideWindow
  <2> QED BY <2>5, <2>6, <2>7
<1>9. a \in Int /\ b \in Int
  BY <1>1, <1>3, <1>4
<1> QED BY <1>6, <1>7, <1>8, <1>9

\* A firing just now is the last one.
LEMMA JustFired ==
    ASSUME NEW fires \in SUBSET (0 .. Period - 1), NEW t \in fires
    PROVE  SinceLast(fires, t) = 0
<1>1. t % Period = t /\ t - 0 = t
  BY Wrap
<1>2. t \in -1 .. 2 * Period - 2 /\ 0 \in 0 .. Period - 1
  BY PeriodAssumption
<1>3. (t - 0) % Period \in fires
  BY <1>1
<1>4. \A j \in 0 .. 0 - 1 : (t - j) % Period \notin fires
  OBVIOUS
<1> QED BY <1>2, <1>3, <1>4, SinceLastUnique

\* Until `next' both firings only come nearer; at `next' one has just been.
LEMMA FlipsAtNext ==
    ASSUME NEW s \in Schedules, Alternates(s), NEW t \in 0 .. Period - 1
    PROVE  LET state == Evaluate(s, t) IN
           /\ \A k \in 0 .. state.next - 1 :
                 Evaluate(s, (t + k) % Period).asleep = state.asleep
           /\ Evaluate(s, (t + state.next) % Period).asleep = ~state.asleep
<1> DEFINE S == s.sleepAt
           W == s.wakeAt
           a == UntilNext(S, t)
           b == UntilNext(W, t)
           n == Evaluate(s, t).next
<1>1. Period \in Nat \ {0}
  BY PeriodAssumption
<1>2. /\ S \in SUBSET (0 .. Period - 1) /\ W \in SUBSET (0 .. Period - 1)
      /\ S # {} /\ W # {} /\ S \intersect W = {}
  BY ScheduleAssumption DEF Alternates
<1>3. /\ a \in 1 .. Period /\ (t + a) % Period \in S
      /\ b \in 1 .. Period /\ (t + b) % Period \in W
  BY <1>2, UntilNextIsFirst
<1>4. /\ Evaluate(s, t).asleep = (b < a)
      /\ n = IF b < a THEN b ELSE a
  <2>1. Before(b, a) = (b < a)
    BY <1>1, <1>3, NeverAssumption DEF Before
  <2> HIDE DEF a, b
  <2> QED BY <2>1 DEF Evaluate, a, b
<1>5. n \in 1 .. Period /\ n <= a /\ n <= b
  BY <1>1, <1>3, <1>4
<1>6. ASSUME NEW k \in 0 .. n - 1
      PROVE  Evaluate(s, (t + k) % Period).asleep = Evaluate(s, t).asleep
  <2> HIDE DEF a, b, n
  <2>1. k \in 0 .. Period - 1 /\ k < a /\ k < b
    BY <1>1, <1>3, <1>5
  <2>2. /\ UntilNext(S, (t + k) % Period) = a - k
        /\ UntilNext(W, (t + k) % Period) = b - k
    BY <1>2, <2>1, NextApproaches DEF a, b
  <2>3. Before(b - k, a - k) = (b < a)
    BY <1>1, <1>3, <2>1, NeverAssumption DEF Before
  <2> QED BY <1>4, <2>2, <2>3 DEF Evaluate
<1>7. Evaluate(s, (t + n) % Period).asleep = ~Evaluate(s, t).asleep
  <2> DEFINE u == (t + n) % Period
  <2>1. t + n \in Int
    BY <1>5
  <2>2. u \in 0 .. Period - 1
    BY <2>1, ClockRange
  <2>3. u \in -1 .. 2 * Period - 2
    BY <1>1, <2>2
  <2>4. Evaluate(s, u).asleep = (SinceLast(S, u) < SinceLast(W, u))
    BY <2>2, AheadIsBehind DEF InsideWindow
  <2>5. SinceLast(S, u) \in 0 .. Period - 1 /\ SinceLast(W, u) \in 0 .. Period - 1
        /\ (u - SinceLast(S, u)) % Period \in S /\ (u - SinceLast(W, u)) % Period \in W
    BY <1>2, <2>3, SinceLastIsLast
  <2>6. u - 0 = u /\ u % Period = u
    BY <2>2, Wrap
  <2> HIDE DEF a, b, n, u
  <2>7. CASE b < a
    <3>1. u \in W /\ SinceLast(W, u) = 0
      BY <1>2, <1>3, <1>4, <2>7, JustFired DEF u
    <3>2. (SinceLast(S, u) < SinceLast(W, u)) = FALSE
      BY <1>1, <2>5, <3>1
    <3>3. Evaluate(s, t).asleep = TRUE
      BY <1>4, <2>7
    <3> QED BY <2>4, <3>2, <3>3 DEF u
  <2>8. CASE ~(b < a)
    <3>1. u \in S /\ SinceLast(S, u) = 0
      BY <1>2, <1>3, <1>4, <2>8, JustFired DEF u
    <3>2. SinceLast(W, u) # 0
      BY <1>2, <2>5, <2>6, <3>1
    <3>3. SinceLast(S, u) < SinceLast(W, u)
      BY <1>1, <2>5, <3>1, <3>2
    <3> QED BY <1>4, <2>4, <2>8, <3>3 DEF u
  <2> QED BY <2>7, <2>8
<1> QED BY <1>6, <1>7

LEMMA AheadIsEnough == TypeOK => ReadsTheSchedule /\ NextIsTheFlip
<1>1. SUFFICES ASSUME TypeOK, schedule # None, Alternates(schedule)
               PROVE  /\ Evaluate(schedule, now).asleep = InsideWindow(schedule, now)
                      /\ LET state == Evaluate(schedule, now) IN
                         /\ \A k \in 0 .. state.next - 1 :
                               Evaluate(schedule, (now + k) % Period).asleep = state.asleep
                         /\ Evaluate(schedule, (now + state.next) % Period).asleep = ~state.asleep
  BY DEF ReadsTheSchedule, NextIsTheFlip, Alternating
<1>2. schedule \in Schedules /\ now \in 0 .. Period - 1
  BY <1>1 DEF TypeOK
<1> QED BY <1>1, <1>2, AheadIsBehind, FlipsAtNext

\* For every pair that alternates, at every moment, looking only ahead is enough to
\* know the verdict.
THEOREM VerdictIsTheWindow == Spec => []ReadsTheSchedule
<1> QED BY AheadIsEnough, TypeCorrect, PTL

\* And `next' is the moment it flips, neither earlier nor later.
THEOREM NextFlips == Spec => []NextIsTheFlip
<1> QED BY AheadIsEnough, TypeCorrect, PTL
-----------------------------------------------------------------------------
(* The phase trails the schedule by a bounded time.                         *)

\* A number is whole cycles and a remainder.
LEMMA WholeCycles ==
    ASSUME NEW x \in Int
    PROVE  \E q \in Int, r \in 0 .. Period - 1 : x = Period * q + r
<1>1. Period \in Nat \ {0}
  BY PeriodAssumption
<1> DEFINE Rests == {n \in Nat : \E q \in Int : x = Period * q + n}
<1>2. Rests # {}
  <2>1. CASE x >= 0
    <3>1. x \in Nat /\ x = Period * 0 + x
      BY <1>1, <2>1
    <3> QED BY <3>1
  <2>2. CASE x < 0
    <3>1. -x \in Nat /\ (Period - 1) * (-x) \in Nat
      BY <1>1, <2>2
    <3>2. x = Period * x + (Period - 1) * (-x)
      BY <1>1
    <3> QED BY <3>1, <3>2
  <2> QED BY <2>1, <2>2
<1>3. PICK r \in Rests : \A n \in Rests : r <= n
  BY <1>2, LeastElement
<1>4. PICK q \in Int : x = Period * q + r
  BY <1>3
<1>5. r < Period
  <2>1. SUFFICES ASSUME r >= Period PROVE FALSE
    BY <1>1, <1>3
  <2>2. r - Period \in Nat /\ x = Period * (q + 1) + (r - Period)
    BY <1>1, <1>3, <1>4, <2>1
  <2>3. r - Period \in Rests
    BY <2>2
  <2>4. r <= r - Period /\ r \in Nat
    BY <1>3, <2>3
  <2> QED BY <1>1, <2>4
<1> QED BY <1>1, <1>3, <1>4, <1>5

LEMMA RemainderOf ==
    ASSUME NEW q \in Int, NEW r \in 0 .. Period - 1
    PROVE  (Period * q + r) % Period = r
BY PeriodAssumption

\* However far back, a moment stays the same when the clock has moved on.
LEMMA StillAgo ==
    ASSUME NEW t \in 0 .. Period - 1, NEW k \in Int
    PROVE  (((t + 1) % Period) - (k + 1)) % Period = (t - k) % Period
<1>1. Period \in Nat \ {0}
  BY PeriodAssumption
<1>2. CASE t + 1 < Period
  <2>1. (t + 1) % Period = t + 1
    BY <1>1, <1>2, Wrap
  <2>2. (t + 1) - (k + 1) = t - k
    BY <1>1
  <2> QED BY <2>1, <2>2
<1>3. CASE t + 1 >= Period
  <2>1. t = Period - 1 /\ (t + 1) % Period = 0
    <3>1. 0 \in 0 .. Period - 1 /\ 0 + Period = t + 1
      BY <1>1, <1>3
    <3> QED BY <1>1, <1>3, <3>1, Wrap
  <2>2. PICK q \in Int, r \in 0 .. Period - 1 : t - k = Period * q + r
    <3>1. t - k \in Int
      BY <1>1
    <3> QED BY <3>1, WholeCycles
  <2>3. 0 - (k + 1) = Period * (q - 1) + r
    <3>1. 0 - (k + 1) = (t - k) - Period
      BY <1>1, <2>1
    <3> QED BY <1>1, <2>2, <3>1
  <2>4. (Period * (q - 1) + r) % Period = r /\ (Period * q + r) % Period = r
    BY <1>1, RemainderOf
  <2> QED BY <2>1, <2>2, <2>3, <2>4
<1> QED BY <1>1, <1>2, <1>3

\* Short of `next' nothing flips, and `next' comes nearer.
LEMMA OneUnitOn ==
    ASSUME NEW s \in Schedules, NEW t \in 0 .. Period - 1
    PROVE  LET here == Evaluate(s, t)  there == Evaluate(s, (t + 1) % Period) IN
           /\ here.next \in (Nat \ {0}) \union {None}
           /\ here.next = None \/ here.next > 1 =>
                 /\ there.asleep = here.asleep
                 /\ there.next = IF here.next = None THEN None ELSE here.next - 1
<1>1. Period \in Nat \ {0} /\ None \notin Int
  BY PeriodAssumption, NeverAssumption
<1> DEFINE u == (t + 1) % Period
<1>2. u \in 0 .. Period - 1
  BY <1>1, ClockRange
<1>3. ASSUME NEW fires \in SUBSET (0 .. Period - 1)
      PROVE  /\ fires = {} => UntilNext(fires, t) = None /\ UntilNext(fires, u) = None
             /\ fires # {} => /\ UntilNext(fires, t) \in Nat \ {0}
                              /\ UntilNext(fires, u) \in Nat \ {0}
                              /\ UntilNext(fires, t) > 1 =>
                                    UntilNext(fires, u) = UntilNext(fires, t) - 1
  <2>1. CASE fires = {}
    BY <2>1 DEF UntilNext
  <2>2. CASE fires # {}
    <3>1. UntilNext(fires, t) \in 1 .. Period /\ UntilNext(fires, u) \in 1 .. Period
      BY <1>2, <2>2, UntilNextIsFirst
    <3>2. UntilNext(fires, t) > 1 => 1 \in 0 .. Period - 1
      BY <1>1, <3>1
    <3>3. UntilNext(fires, t) > 1 => UntilNext(fires, u) = UntilNext(fires, t) - 1
      BY <2>2, <3>1, <3>2, NextApproaches
    <3> HIDE DEF u
    <3>4. \A x \in 1 .. Period : x \in Nat \ {0}
      BY <1>1
    <3>5. UntilNext(fires, t) \in Nat \ {0} /\ UntilNext(fires, u) \in Nat \ {0}
      BY <3>1, <3>4
    <3> QED BY <2>2, <3>3, <3>5
  <2> QED BY <2>1, <2>2
<1>4. s.sleepAt \in SUBSET (0 .. Period - 1) /\ s.wakeAt \in SUBSET (0 .. Period - 1)
  BY ScheduleAssumption
<1> DEFINE n  == UntilNext(s.sleepAt, t)   w  == UntilNext(s.wakeAt, t)
           n1 == UntilNext(s.sleepAt, u)   w1 == UntilNext(s.wakeAt, u)
<1>5. /\ \/ n = None /\ n1 = None
         \/ n \in Nat \ {0} /\ n1 \in Nat \ {0} /\ (n > 1 => n1 = n - 1)
      /\ \/ w = None /\ w1 = None
         \/ w \in Nat \ {0} /\ w1 \in Nat \ {0} /\ (w > 1 => w1 = w - 1)
  BY <1>3, <1>4
<1>6. /\ Evaluate(s, t).asleep = Before(w, n)
      /\ Evaluate(s, t).next = IF Before(w, n) THEN w ELSE n
      /\ Evaluate(s, u).asleep = Before(w1, n1)
      /\ Evaluate(s, u).next = IF Before(w1, n1) THEN w1 ELSE n1
  BY DEF Evaluate
<1> HIDE DEF n, w, n1, w1, u
<1>7. LET next == IF Before(w, n) THEN w ELSE n IN
      /\ next \in (Nat \ {0}) \union {None}
      /\ next = None \/ next > 1 =>
           /\ Before(w1, n1) = Before(w, n)
           /\ (IF Before(w1, n1) THEN w1 ELSE n1) = IF next = None THEN None ELSE next - 1
  BY <1>1, <1>5 DEF Before
<1>8. /\ Evaluate(s, t).next \in (Nat \ {0}) \union {None}
      /\ Evaluate(s, t).next = None \/ Evaluate(s, t).next > 1 =>
           /\ Evaluate(s, u).asleep = Evaluate(s, t).asleep
           /\ Evaluate(s, u).next = IF Evaluate(s, t).next = None THEN None
                                    ELSE Evaluate(s, t).next - 1
  BY <1>6, <1>7
<1> QED BY <1>8 DEF u

\* A verdict read at some moment, whose flip is `left' units away: it is today's until
\* then, and afterwards it was the verdict just before the flip.
Reads(asleep, left) ==
    \/ /\ left = None \/ left > 0
       /\ asleep = Evaluate(schedule, now).asleep /\ left = Evaluate(schedule, now).next
    \/ /\ left \in Int /\ left <= 0
       /\ asleep = Evaluate(schedule, (now - (1 - left)) % Period).asleep

\* What the pass in progress found, and what the last one left behind, unless something
\* has happened that brings the window back: the wait ends at most Lateness after the flip.
PassFollows == pass # None =>
    /\ up
    /\ ~queued => /\ schedule # None /\ pass.fresh
                  /\ Reads(pass.asleep, pass.left)
                  /\ pass.left = None \/ pass.left >= 1 - pass.age

PhaseFollows == Watching /\ ~failed =>
    \E asleep \in BOOLEAN, left \in Int \union {None} :
        /\ phase = PhaseOf(asleep)
        /\ Reads(asleep, left)
        /\ left = None \/ due <= left + Lateness

LEMMA LatenessRange ==
    /\ Lateness \in Nat /\ Lateness >= Margin /\ Lateness >= MaxPass + MinGap
BY GapAssumption, BoundAssumption DEF Lateness

\* What was read stays read when the clock moves on.
LEMMA ReadsOn ==
    ASSUME TypeOK, schedule # None, schedule' = schedule, now' = (now + 1) % Period,
           NEW asleep, NEW left \in Int \union {None}, Reads(asleep, left)
    PROVE  LET then == IF left = None THEN None ELSE left - 1 IN
           Reads(asleep, then)'
<1>1. /\ now \in 0 .. Period - 1 /\ now' \in 0 .. Period - 1 /\ schedule \in Schedules
      /\ None \notin Int
  <2>1. now \in 0 .. Period - 1 /\ schedule \in Schedules
    BY DEF TypeOK
  <2>2. now + 1 \in Int
    BY <2>1, PeriodAssumption
  <2> QED BY <2>1, <2>2, ClockRange, NeverAssumption
<1>2. CASE left = None \/ left > 1
  <2>1. asleep = Evaluate(schedule, now).asleep /\ left = Evaluate(schedule, now).next
    BY <1>1, <1>2 DEF Reads
  <2>2. /\ Evaluate(schedule, now').asleep = asleep
        /\ Evaluate(schedule, now').next = IF left = None THEN None ELSE left - 1
    BY <1>1, <1>2, <2>1, OneUnitOn
  <2> QED BY <1>1, <1>2, <2>2 DEF Reads
<1>3. CASE left = 1
  <2>1. asleep = Evaluate(schedule, now).asleep
    BY <1>1, <1>3 DEF Reads
  <2>2. (now' - 1) % Period = now
    <3>1. (((now + 1) % Period) - (0 + 1)) % Period = (now - 0) % Period
      BY <1>1, StillAgo
    <3>2. now - 0 = now /\ now % Period = now
      BY <1>1, Wrap, PeriodAssumption
    <3> QED BY <3>1, <3>2
  <2>3. Evaluate(schedule, (now' - (1 - 0)) % Period).asleep = asleep
    BY <2>1, <2>2
  <2> QED BY <1>1, <1>3, <2>3 DEF Reads
<1>4. CASE left \in Int /\ left <= 0
  <2>1. asleep = Evaluate(schedule, (now - (1 - left)) % Period).asleep
    BY <1>1, <1>4 DEF Reads
  <2>2. (now' - ((1 - left) + 1)) % Period = (now - (1 - left)) % Period
    <3>1. PICK k \in Int : k = 1 - left
      BY <1>4
    <3>2. (((now + 1) % Period) - (k + 1)) % Period = (now - k) % Period
      BY <1>1, StillAgo
    <3> QED BY <3>1, <3>2
  <2>3. (1 - left) + 1 = 1 - (left - 1)
    BY <1>4
  <2>4. asleep = Evaluate(schedule, (now' - (1 - (left - 1))) % Period).asleep
    BY <2>1, <2>2, <2>3
  <2>5. left - 1 \in Int /\ left - 1 <= 0 /\ left # None
    BY <1>1, <1>4
  <2> QED BY <2>4, <2>5 DEF Reads
<1> QED BY <1>2, <1>3, <1>4

\* A pass that is over leaves a wait that ends at most Lateness after the flip.
LEMMA FinishFollows ==
    ASSUME TypeOK, PassFollows, FinishPass
    PROVE  PhaseFollows'
<1> SUFFICES ASSUME Watching'
             PROVE  \E asleep \in BOOLEAN, left \in Int \union {None} :
                      /\ phase' = PhaseOf(asleep)
                      /\ Reads(asleep, left)'
                      /\ left = None \/ due' <= left + Lateness
  BY DEF PhaseFollows
<1>1. /\ pass # None /\ ~queued /\ UNCHANGED <<now, schedule>>
      /\ phase' = IF pass.fresh THEN PhaseOf(pass.asleep) ELSE phase
      /\ due' = Requeued(due, RequeueAfter(pass.left))
  BY DEF FinishPass, Watching
<1>2. PICK asleep \in BOOLEAN, left \in Int \union {None}, age \in 0 .. MaxPass :
          asleep = pass.asleep /\ left = pass.left /\ age = pass.age
  BY <1>1, PassType
<1>3. /\ pass.fresh /\ Reads(asleep, left)
      /\ left = None \/ left >= 1 - age
  BY <1>1, <1>2 DEF PassFollows
<1>4. Reads(asleep, left)' /\ phase' = PhaseOf(asleep)
  BY <1>1, <1>2, <1>3 DEF Reads
<1>5. ASSUME left # None PROVE due' <= left + Lateness
  <2>1. left \in Int /\ age \in Nat /\ age <= MaxPass /\ MaxPass \in Nat /\ left >= 1 - age
    BY <1>2, <1>3, <1>5, BoundAssumption
  <2>2. /\ RequeueAfter(left) \in Nat \ {0}
        /\ RequeueAfter(left) <= left + Margin \/ RequeueAfter(left) <= MinGap
    BY <1>5, <2>1, GapAssumption DEF RequeueAfter
  <2>3. due' <= RequeueAfter(left) /\ due' \in Nat
    <3>1. due \in (Nat \ {0}) \union {None}
      BY DEF TypeOK
    <3>2. /\ Requeued(due, RequeueAfter(left)) \in Nat \ {0}
          /\ Requeued(due, RequeueAfter(left)) <= RequeueAfter(left)
      BY <2>2, <3>1, RequeuedType
    <3> QED BY <1>1, <1>2, <3>2
  <2> QED BY <2>1, <2>2, <2>3, LatenessRange, GapAssumption
<1> QED BY <1>4, <1>5

\* What the pass found is as old as the pass.
LEMMA TickPassFollows ==
    ASSUME TypeOK, PassFollows, Tick
    PROVE  PassFollows' /\ (pass # None => pass' # None)
<1>1. /\ now' = (now + 1) % Period /\ queued' = (queued \/ Ended(due))
      /\ UNCHANGED <<schedule, up>>
  BY DEF Tick
<1>2. CASE pass = None
  BY <1>2 DEF Tick, PassFollows
<1>3. CASE pass # None
  <2>1. PICK asleep \in BOOLEAN, left \in Int \union {None}, age \in 0 .. MaxPass :
            asleep = pass.asleep /\ left = pass.left /\ age = pass.age
    BY <1>3, PassType
  <2> DEFINE then == IF left = None THEN None ELSE left - 1
  <2>2. pass' = [pass EXCEPT !.age = age + 1, !.left = then] /\ age < MaxPass
    BY <1>3, <2>1 DEF Tick
  <2>3. then \in Int \union {None} /\ age + 1 \in 0 .. MaxPass
    BY <2>1, <2>2, BoundAssumption
  <2>4. (left = None \/ left >= 1 - age) => (then = None \/ then >= 1 - (age + 1))
    BY <2>1, BoundAssumption, NeverAssumption
  <2>5. schedule # None /\ Reads(asleep, left) => Reads(asleep, then)'
    BY <1>1, ReadsOn
  <2> HIDE DEF then
  <2>6. /\ pass'.asleep = asleep /\ pass'.left = then /\ pass'.age = age + 1
        /\ pass'.fresh = pass.fresh /\ pass' \in Pass
    <3>1. pass \in Pass
      BY <1>3, PassType
    <3> QED BY <2>1, <2>2, <2>3, <3>1 DEF Pass
  <2>7. /\ up
        /\ ~queued => /\ schedule # None /\ pass.fresh /\ Reads(asleep, left)
                      /\ left = None \/ left >= 1 - age
    BY <1>3, <2>1 DEF PassFollows
  <2>8. /\ up'
        /\ ~queued' => /\ schedule' # None /\ pass'.fresh /\ Reads(asleep, then)'
                       /\ then = None \/ then >= 1 - (age + 1)
    BY <1>1, <2>4, <2>5, <2>6, <2>7
  <2>9. PassFollows'
    <3>1. PICK rest : rest = then
      OBVIOUS
    <3>2. Reads(asleep, then)' <=> Reads(asleep, rest)'
      BY <3>1 DEF then
    <3>3. pass'.left = rest /\ (~queued' => rest = None \/ rest >= 1 - (age + 1))
      BY <2>6, <2>8, <3>1
    <3>4. ~queued' => Reads(pass.asleep, pass.left)'
      BY <2>6, <2>8, <3>2, <3>3 DEF Reads
    <3> QED BY <2>6, <2>8, <3>3, <3>4 DEF PassFollows
  <2> QED BY <2>6, <2>9, NoneAssumption
<1> QED BY <1>2, <1>3

\* While the window waits, the flip and the end of the wait come nearer together.
LEMMA TickPhaseFollows ==
    ASSUME TypeOK, NeverForgotten, PassFollows, PhaseFollows, Tick
    PROVE  PhaseFollows'
<1> SUFFICES ASSUME Watching', ~failed'
             PROVE  \E asleep \in BOOLEAN, left \in Int \union {None} :
                      /\ phase' = PhaseOf(asleep)
                      /\ Reads(asleep, left)'
                      /\ left = None \/ due' <= left + Lateness
  BY DEF PhaseFollows
<1>1. /\ now' = (now + 1) % Period /\ queued' = (queued \/ Ended(due)) /\ due' = Elapsed(due)
      /\ UNCHANGED <<schedule, suspended, up, failed, phase>>
  BY DEF Tick
<1>2. Watching /\ ~failed /\ ~Ended(due)
  BY <1>1, TickPassFollows DEF Watching
<1>3. PICK asleep \in BOOLEAN, left \in Int \union {None} :
          /\ phase = PhaseOf(asleep)
          /\ Reads(asleep, left)
          /\ left = None \/ due <= left + Lateness
  BY <1>2 DEF PhaseFollows
<1> DEFINE then == IF left = None THEN None ELSE left - 1
<1>4. Reads(asleep, then)'
  BY <1>1, <1>2, <1>3, ReadsOn DEF Watching
<1>5. then \in Int \union {None} /\ (then = None \/ due' <= then + Lateness)
  <2>1. CASE left = None
    BY <2>1
  <2>2. CASE left # None
    <3>1. left \in Int /\ then = left - 1 /\ due <= left + Lateness
      BY <1>3, <2>2
    <3>2. due # None
      BY <1>2 DEF NeverForgotten
    <3>3. due \in Nat /\ due' = due - 1
      BY <1>1, <1>2, <3>2, NeverAssumption DEF TypeOK, Elapsed, Ended
    <3> QED BY <3>1, <3>3, LatenessRange
  <2> QED BY <2>1, <2>2
<1> QED BY <1>1, <1>3, <1>4, <1>5

LEMMA NextFollows ==
    TypeOK /\ NeverForgotten /\ PassFollows /\ PhaseFollows /\ [Next]_vars
        => PassFollows' /\ PhaseFollows'
<1> SUFFICES ASSUME TypeOK, NeverForgotten, PassFollows, PhaseFollows, [Next]_vars
             PROVE  PassFollows' /\ PhaseFollows'
  OBVIOUS
<1>1. CASE SkipSuspended \/ RejectSchedule
  <2>1. pass = None /\ pass' = None
    BY <1>1 DEF SkipSuspended, RejectSchedule
  <2>2. ~Watching'
    <3>1. CASE SkipSuspended
      BY <3>1 DEF SkipSuspended, Watching
    <3>2. CASE RejectSchedule
      BY <3>2 DEF RejectSchedule, Watching
    <3> QED BY <1>1, <3>1, <3>2
  <2>3. PassFollows'
    BY <2>1 DEF PassFollows
  <2> QED BY <2>2, <2>3 DEF PhaseFollows
<1>2. CASE BeginPass
  <2>1. /\ schedule \in Schedules /\ now \in 0 .. Period - 1 /\ up /\ up' /\ schedule' = schedule
        /\ now' = now /\ schedule # None
    BY <1>2 DEF TypeOK, BeginPass
  <2>2. PICK asleep \in BOOLEAN, left \in (Nat \ {0}) \union {None} :
            asleep = Evaluate(schedule, now).asleep /\ left = Evaluate(schedule, now).next
    BY <2>1, EvaluateType, OneUnitOn
  <2>3. pass' = [asleep |-> asleep, left |-> left, age |-> 0, fresh |-> TRUE]
    BY <1>2, <2>2 DEF BeginPass
  <2>4. pass' # None
    <3>1. 0 \in 0 .. MaxPass
      BY BoundAssumption
    <3>2. pass' \in Pass
      BY <2>3, <3>1 DEF Pass
    <3> QED BY <3>2, NoneAssumption
  <2>5. Reads(asleep, left)' /\ (left = None \/ left >= 1 - 0)
    BY <2>1, <2>2 DEF Reads
  <2>6. pass'.asleep = asleep /\ pass'.left = left /\ pass'.age = 0 /\ pass'.fresh
    BY <2>3
  <2>7. Reads(pass.asleep, pass.left)'
    BY <2>5, <2>6 DEF Reads
  <2>8. PassFollows'
    BY <2>1, <2>5, <2>6, <2>7 DEF PassFollows
  <2> QED BY <2>4, <2>8 DEF PhaseFollows, Watching
<1>3. CASE FinishPass
  BY <1>3, FinishFollows DEF FinishPass, PassFollows
<1>4. CASE FailPass \/ Crash \/ Restart
  BY <1>4 DEF FailPass, Crash, Restart, PassFollows, PhaseFollows, Watching
<1>5. CASE Tick
  BY <1>5, TickPassFollows, TickPhaseFollows
<1>6. CASE Edit \/ Event
  <2>1. up' = up /\ queued' = up /\ (pass = None => pass' = None)
    BY <1>6 DEF Edit, Event
  <2>2. pass' # None => up'
    BY <2>1 DEF PassFollows
  <2> QED BY <2>1, <2>2 DEF PassFollows, PhaseFollows, Watching
<1>7. CASE UNCHANGED vars
  BY <1>7 DEF vars, PassFollows, PhaseFollows, Watching, Reads
<1> QED BY <1>1, <1>2, <1>3, <1>4, <1>5, <1>6, <1>7 DEF Next

\* A window at rest after a pass that succeeded shows the verdict that its schedule gave
\* at most Lateness units ago, for every pair of expressions and every setting.
THEOREM PhaseTrails == Spec => []PhaseIsTimely
<1>1. Init => PassFollows /\ PhaseFollows
  BY DEF Init, PassFollows, PhaseFollows, Watching
<1>2. TypeOK /\ NeverForgotten /\ PhaseFollows => PhaseIsTimely
  <2> SUFFICES ASSUME TypeOK, NeverForgotten, PhaseFollows, Watching, ~failed
               PROVE  PhaseWithin(Lateness)
    BY DEF PhaseIsTimely
  <2>1. PICK asleep \in BOOLEAN, left \in Int \union {None} :
            /\ phase = PhaseOf(asleep)
            /\ Reads(asleep, left)
            /\ left = None \/ due <= left + Lateness
    BY DEF PhaseFollows
  <2>2. due \in Nat \ {0} /\ now \in 0 .. Period - 1
    BY DEF TypeOK, NeverForgotten
  <2>3. CASE left = None \/ left > 0
    <3>1. asleep = Evaluate(schedule, now).asleep
      BY <2>1, <2>3, NeverAssumption DEF Reads
    <3>2. (now - 0) % Period = now /\ 0 \in 0 .. Lateness
      <4>1. now - 0 = now /\ now % Period = now
        BY <2>2, Wrap, PeriodAssumption
      <4> QED BY <4>1, LatenessRange
    <3> QED BY <2>1, <3>1, <3>2 DEF PhaseWithin
  <2>4. CASE left \in Int /\ left <= 0
    <3>1. asleep = Evaluate(schedule, (now - (1 - left)) % Period).asleep
      BY <2>1, <2>4, NeverAssumption DEF Reads
    <3>2. 1 - left \in 0 .. Lateness
      BY <2>1, <2>2, <2>4, LatenessRange, NeverAssumption
    <3> QED BY <2>1, <3>1, <3>2 DEF PhaseWithin
  <2> QED BY <2>3, <2>4
<1> QED BY <1>1, <1>2, NextFollows, BothArranged, TypeCorrect, PTL DEF Spec

=============================================================================
