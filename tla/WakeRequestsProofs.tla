------------------------- MODULE WakeRequestsProofs -------------------------
(* Theorems about WakeRequests, for any number of requests and of windows, *)
(* every duration, cap and setting of the delays, and all disturbances.    *)
EXTENDS WakeRequests, TLAPS, WellFoundedInduction

-----------------------------------------------------------------------------
(* The helpers.                                                             *)

\* Of finitely or infinitely many lapses the earliest is found, and Far when there
\* is none.
LEMMA EarliestIsFirst ==
    ASSUME NEW lefts \in SUBSET Nat
    PROVE  /\ EarliestExpiry(lefts) \in Int
           /\ \A x \in lefts : EarliestExpiry(lefts) <= x
<1> DEFINE All == lefts \union {Far}
<1>1. All \in SUBSET Nat /\ All # {}
  BY GapAssumption, BoundAssumption DEF Far
<1>2. \E x \in All : \A y \in All : x <= y
  <2>1. IsWellFoundedOn(OpToRel(<, Nat), Nat)
    BY NatLessThanWellFounded
  <2>2. PICK x \in All : \A y \in All : ~(<<y, x>> \in OpToRel(<, Nat))
    BY <1>1, <2>1, WFMin
  <2>3. \A y \in All : y \in Nat /\ x \in Nat /\ ~(y < x)
    BY <1>1, <2>2 DEF OpToRel
  <2> QED BY <2>3
<1>3. EarliestExpiry(lefts) \in All /\ \A y \in All : EarliestExpiry(lefts) <= y
  BY <1>2 DEF EarliestExpiry
<1> QED BY <1>1, <1>3

\* The delay is positive, and at most the margin after what is left or the least gap.
LEMMA DelayRange ==
    ASSUME NEW left \in Int
    PROVE  /\ RequeueAfter(left) \in Nat \ {0}
           /\ RequeueAfter(left) <= left + Margin \/ RequeueAfter(left) <= MinGap
BY GapAssumption, NeverAssumption DEF RequeueAfter

\* A wait that is already running can only make the next one earlier.
LEMMA WaitRange ==
    ASSUME NEW wait \in (Nat \ {0}) \union {None}, NEW delay \in Nat \ {0}
    PROVE  /\ Requeued(wait, delay) \in Nat \ {0}
           /\ Requeued(wait, delay) # None
           /\ Requeued(wait, delay) <= delay
BY NeverAssumption DEF Requeued

\* A unit later a wait is one shorter, or has just ended.
LEMMA ElapsedRange ==
    ASSUME NEW wait \in (Nat \ {0}) \union {None}
    PROVE  /\ Elapsed(wait) \in (Nat \ {0}) \union {None}
           /\ wait # None /\ ~Ended(wait) => Elapsed(wait) # None /\ Elapsed(wait) = wait - 1
BY NeverAssumption DEF Elapsed, Ended

\* A verdict turns once, from Active to Expired, when the duration is over.
LEMMA VerdictTurnsOnce ==
    ASSUME NEW d \in Nat, NEW c \in Nat, NEW t \in Nat, NEW u \in Nat, t <= u
    PROVE  /\ Classify(d, c, t) \in Verdicts
           /\ Classify(d, c, t) = "Active" <=> c > 0 /\ d <= c /\ t < d
           /\ Classify(d, c, u) = "Active" => Classify(d, c, t) = "Active"
           /\ Classify(d, c, t) # "Active" => Classify(d, c, u) = Classify(d, c, t)
BY DEF Classify, Verdicts

-----------------------------------------------------------------------------
(* Types.                                                                   *)

\* What a pass writes is a request with a verdict.
LEMMA JudgedType ==
    ASSUME NEW obj \in Object, NEW w \in Windows, NEW v \in Verdicts
    PROVE  Judged(obj, w, v) \in Object
BY DEF Object, Judged

\* The fields of the pass in progress.
LEMMA PassType ==
    ASSUME TypeOK, pass # None
    PROVE  /\ pass \in Pass /\ pass.window \in Windows
           /\ pass.writes \in [Requests -> Object \union {None}]
           /\ pass.valid \in SUBSET Requests
           /\ pass.phase \in Phases /\ pass.left \in Int /\ pass.age \in 0 .. MaxPass
           /\ pass.fresh \in BOOLEAN
BY DEF TypeOK, Pass

\* A request there is.
LEMMA RequestType ==
    ASSUME TypeOK, NEW r \in Requests
    PROVE  /\ age[r] \in Nat /\ age[r] <= AgeBound
           /\ server[r] # None => /\ server[r] \in Object /\ server[r].duration \in Nat
                                  /\ server[r].duration \in Durations
           /\ cache[r] # None => cache[r] \in Object /\ cache[r].duration \in Nat
<1>1. age[r] \in 0 .. AgeBound
  BY DEF TypeOK
<1>2. \A obj \in Object : obj.duration \in Durations /\ obj.duration \in Nat
  BY DurationAssumption DEF Object
<1>3. server[r] \in Object \union {None} /\ cache[r] \in Object \union {None}
  BY DEF TypeOK
<1> QED BY <1>1, <1>2, <1>3, AgeAssumption

\* What a window that begins a pass lists and concludes.
Listed     == {r \in Requests : cache[r] # None}
Verdict(w, r) == Classify(cache[r].duration, cap[w], age[r])
Holding(w) == {r \in Listed : Verdict(w, r) = "Active"}
Lefts(w)   == {cache[r].duration - age[r] : r \in Holding(w)}
Differing(w) == {r \in Listed : Differs(cache[r], w, Verdict(w, r))}
Begun(w)   == [window |-> w,
               writes |-> [r \in Requests |-> IF r \in Differing(w)
                             THEN Judged(cache[r], w, Verdict(w, r)) ELSE None],
               valid |-> {r \in Differing(w) : current[r]},
               phase |-> PhaseOf(scheduled[w], Holding(w) # {}),
               left |-> EarliestExpiry(Lefts(w)),
               age |-> 0, fresh |-> TRUE]

LEMMA BeginPassBegins ==
    ASSUME NEW w \in Windows, BeginPass(w)
    PROVE  pass' = Begun(w)
BY DEF BeginPass, Begun, Listed, Verdict, Holding, Lefts, Differing

\* Every request that holds has something left.
LEMMA LeftsRange ==
    ASSUME TypeOK, NEW w \in Windows
    PROVE  /\ Lefts(w) \in SUBSET Nat
           /\ \A r \in Listed : Verdict(w, r) \in Verdicts
<1>1. ASSUME NEW r \in Listed
      PROVE  /\ Verdict(w, r) \in Verdicts
             /\ r \in Holding(w) => cache[r].duration - age[r] \in Nat
  <2>1. cache[r].duration \in Nat /\ age[r] \in Nat /\ cap[w] \in Nat
    BY RequestType, DurationAssumption DEF TypeOK, Listed
  <2> QED BY <2>1, VerdictTurnsOnce DEF Verdict, Holding
<1> QED BY <1>1 DEF Lefts, Holding

LEMMA BegunType ==
    ASSUME TypeOK, NEW w \in Windows
    PROVE  Begun(w) \in Pass /\ Begun(w) # None
<1>1. \A r \in Differing(w) : Judged(cache[r], w, Verdict(w, r)) \in Object
  BY JudgedType, LeftsRange DEF TypeOK, Differing, Listed
<1>2. EarliestExpiry(Lefts(w)) \in Int
  BY LeftsRange, EarliestIsFirst
<1>3. PhaseOf(scheduled[w], Holding(w) # {}) \in Phases
  BY DEF PhaseOf, Phases
<1>4. {r \in Differing(w) : current[r]} \in SUBSET Requests
  BY DEF Differing, Listed
<1>5. 0 \in 0 .. MaxPass
  BY BoundAssumption
<1>6. Begun(w) \in Pass
  BY <1>1, <1>2, <1>3, <1>4, <1>5 DEF Begun, Pass
<1> QED BY <1>6, NoneAssumption

LEMMA InitTypeOK == Init => TypeOK
<1>1. 0 \in 0 .. AgeBound
  BY AgeAssumption
<1> SUFFICES ASSUME Init PROVE TypeOK
  OBVIOUS
<1>2. server \in [Requests -> Object \union {None}] /\ cache = server
  BY DEF Init
<1>3. age \in [Requests -> 0 .. AgeBound]
  BY <1>1 DEF Init
<1>4. due \in [Windows -> (Nat \ {0}) \union {None}] /\ phase \in [Windows -> Phases]
  BY DEF Init, Phases
<1> QED BY <1>2, <1>3, <1>4 DEF Init, TypeOK

\* Every step keeps the types.
LEMMA NextTypeOK == TypeOK /\ [Next]_vars => TypeOK'
<1> SUFFICES ASSUME TypeOK, [Next]_vars PROVE TypeOK'
  OBVIOUS
<1>1. ASSUME NEW w \in Windows, BeginPass(w) PROVE TypeOK'
  BY <1>1, BeginPassBegins, BegunType DEF TypeOK, BeginPass
<1>2. ASSUME NEW r \in Requests, Record(r) PROVE TypeOK'
  <2>1. pass' \in Pass
    BY <1>2, PassType DEF Record, Pass
  <2>2. server' \in [Requests -> Object \union {None}] /\ current' \in [Requests -> BOOLEAN]
    BY <1>2, PassType DEF Record, TypeOK
  <2> QED BY <1>2, <2>1, <2>2 DEF Record, TypeOK
<1>3. ASSUME pass # None, EndInError, UNCHANGED <<server, age, cache, current, cap,
             scheduled, up, queued, phase>>
      PROVE  TypeOK'
  <2>1. PICK backoff \in 1 .. MaxBackoff :
             due' = [due EXCEPT ![pass.window] = Requeued(@, backoff)]
    BY <1>3 DEF EndInError
  <2>2. Requeued(due[pass.window], backoff) \in Nat \ {0}
    <3>1. backoff \in Nat \ {0} /\ due[pass.window] \in (Nat \ {0}) \union {None}
      BY PassType, <1>3, BoundAssumption DEF TypeOK
    <3> QED BY <3>1, WaitRange
  <2>3. due' \in [Windows -> (Nat \ {0}) \union {None}]
    BY <2>1, <2>2 DEF TypeOK
  <2> QED BY <1>3, <2>3 DEF EndInError, TypeOK
<1>4. ASSUME NEW r \in Requests, RecordMissing(r) PROVE TypeOK'
  BY <1>3, <1>4 DEF RecordMissing, EndInError
<1>5. CASE FailPass
  BY <1>3, <1>5 DEF FailPass, EndInError
<1>6. CASE FinishPass
  <2>1. Requeued(due[pass.window], RequeueAfter(pass.left)) \in Nat \ {0}
    BY <1>6, PassType, DelayRange, WaitRange DEF TypeOK, FinishPass
  <2>2. phase' \in [Windows -> Phases]
    BY <1>6, PassType DEF TypeOK, FinishPass
  <2>3. due' \in [Windows -> (Nat \ {0}) \union {None}]
    BY <1>6, <2>1 DEF TypeOK, FinishPass
  <2> QED BY <1>6, <2>2, <2>3 DEF TypeOK, FinishPass
<1>7. CASE Crash
  BY <1>7 DEF Crash, TypeOK
<1>8. CASE Restart
  BY <1>8, AgeAssumption DEF Restart, TypeOK
<1>9. ASSUME NEW r \in Requests, Deliver(r) PROVE TypeOK'
  BY <1>9, AgeAssumption DEF Deliver, TypeOK
<1>10. CASE Tick
  <2>1. age' \in [Requests -> 0 .. AgeBound]
    BY <1>10, AgeAssumption DEF Tick, TypeOK
  <2>2. due' \in [Windows -> (Nat \ {0}) \union {None}]
    BY <1>10, ElapsedRange DEF Tick, TypeOK
  <2>3. queued' \in [Windows -> BOOLEAN]
    BY <1>10 DEF Tick, TypeOK, Ended
  <2>4. pass' \in Pass \union {None}
    <3>1. CASE pass # None
      <4>1. pass.age + 1 \in 0 .. MaxPass /\ pass.left - 1 \in Int
        BY <1>10, <3>1, PassType, BoundAssumption DEF Tick
      <4> QED BY <1>10, <3>1, <4>1, PassType DEF Tick, Pass
    <3> QED BY <1>10, <3>1 DEF Tick
  <2> QED BY <1>10, <2>1, <2>2, <2>3, <2>4 DEF Tick, TypeOK
<1>11. ASSUME NEW r \in Requests, NEW obj \in Object \union {None}, Written(r, obj)
       PROVE  /\ server' \in [Requests -> Object \union {None}]
              /\ current' \in [Requests -> BOOLEAN]
              /\ pass' \in Pass \union {None}
  <2>1. pass' \in Pass \union {None}
    BY <1>11, PassType DEF Written, Pass
  <2> QED BY <1>11, <2>1 DEF Written, TypeOK
<1>12. ASSUME NEW r \in Requests, Create(r) PROVE TypeOK'
  <2>1. PICK n \in Durations :
          Written(r, [duration |-> n, phase |-> "", window |-> None, expiresAfter |-> None])
    BY <1>12 DEF Create
  <2>2. [duration |-> n, phase |-> "", window |-> None, expiresAfter |-> None] \in Object
    BY DEF Object
  <2>3. age' \in [Requests -> 0 .. AgeBound]
    <3>1. age' = [age EXCEPT ![r] = 0]
      BY <1>12 DEF Create
    <3>2. 0 \in 0 .. AgeBound
      BY AgeAssumption
    <3> QED BY <3>1, <3>2 DEF TypeOK
  <2> QED BY <1>11, <1>12, <2>1, <2>2, <2>3 DEF Create, TypeOK
<1>13. ASSUME NEW r \in Requests, Delete(r) PROVE TypeOK'
  BY <1>11, <1>13 DEF Delete, TypeOK
<1>14. ASSUME NEW r \in Requests, EditDuration(r) PROVE TypeOK'
  <2>1. PICK n \in Durations : Written(r, [server[r] EXCEPT !.duration = n])
    BY <1>14 DEF EditDuration
  <2>2. [server[r] EXCEPT !.duration = n] \in Object
    BY <1>14, RequestType DEF EditDuration, Object
  <2> QED BY <1>11, <1>14, <2>1, <2>2 DEF EditDuration, TypeOK
<1>15. ASSUME NEW w \in Windows, EditCap(w) PROVE TypeOK'
  <2>1. pass' \in Pass \union {None}
    BY <1>15, PassType DEF EditCap, Pass, TypeOK
  <2> QED BY <1>15, <2>1 DEF EditCap, Reenqueued, TypeOK
<1>16. ASSUME NEW w \in Windows, Boundary(w) PROVE TypeOK'
  BY <1>16 DEF Boundary, Reenqueued, TypeOK
<1>17. CASE UNCHANGED vars
  BY <1>17 DEF vars, TypeOK
<1> QED BY <1>1, <1>2, <1>4, <1>5, <1>6, <1>7, <1>8, <1>9, <1>10, <1>12, <1>13, <1>14,
           <1>15, <1>16, <1>17 DEF Next, System, Environment

\* Every reachable state is well typed.
THEOREM TypeCorrect == Spec => []TypeOK
<1> QED BY InitTypeOK, NextTypeOK, PTL DEF Spec

-----------------------------------------------------------------------------
(* Why the verdicts are timely.  Once something has happened that brings a  *)
(* window back, nothing is claimed of it until its next pass begins.        *)

LEMMA InitVerdictInv == Init => VerdictInv
BY DEF Init, VerdictInv, PassInv, RestInv, Undisturbed

\* When every window is about to be brought back, nothing is left to show.
LEMMA AllDisturbed ==
    ASSUME TypeOK', \A w \in Windows : ~Undisturbed(w)'
    PROVE  PassInv' /\ \A w \in Windows : RestInv(w)'
<1>1. pass' # None => pass'.window \in Windows
  BY DEF TypeOK, Pass
<1> QED BY <1>1 DEF PassInv, RestInv

\* What a window's last pass left behind stays, when the step is about something else.
LEMMA RestStays ==
    ASSUME NEW w \in Windows, RestInv(w), Undisturbed(w)' => Undisturbed(w),
           (pass' # None => pass'.window # w) => (pass # None => pass.window # w),
           server' = server, age' = age, cap'[w] = cap[w], due'[w] = due[w],
           phase'[w] = phase[w], failed'[w] = failed[w]
    PROVE  RestInv(w)'
BY DEF RestInv, LapseIsAwaited, Ruling

\* So does what the pass in progress has concluded.
LEMMA PassStays ==
    ASSUME PassInv, pass' = pass, server' = server, age' = age,
           pass # None => /\ cap'[pass.window] = cap[pass.window]
                          /\ Undisturbed(pass.window)' => Undisturbed(pass.window)
    PROVE  PassInv'
BY DEF PassInv, Concluded, Ruling

\* What a pass concludes when it begins is so.
LEMMA BeginPassConcludes ==
    ASSUME TypeOK, TypeOK', VerdictInv, NEW w \in Windows, BeginPass(w)
    PROVE  VerdictInv'
<1>1. pass' = Begun(w) /\ pass' # None
  BY BeginPassBegins, BegunType
<1>2. /\ pass'.window = w /\ pass'.fresh /\ pass'.age = 0
      /\ \A r \in Requests : pass'.writes[r] = IF r \in Differing(w)
                             THEN Judged(cache[r], w, Verdict(w, r)) ELSE None
      /\ pass'.valid = {r \in Differing(w) : current[r]}
      /\ pass'.phase = PhaseOf(scheduled[w], Holding(w) # {})
      /\ pass'.left = EarliestExpiry(Lefts(w))
  BY <1>1 DEF Begun
<1>3. /\ pass = None /\ up
      /\ UNCHANGED <<server, age, cache, current, cap, scheduled, up, due, failed, phase>>
      /\ queued' = [queued EXCEPT ![w] = FALSE]
  BY DEF BeginPass
<1>4. ASSUME Undisturbed(w)', NEW r \in Requests, server[r] # None
      PROVE  /\ r \in Listed /\ cache[r] = server[r]
             /\ Verdict(w, r) = Ruling(r, w, age[r])
             /\ Concluded(r)'
  <2>1. cache[r] = server[r] /\ r \in Listed
    BY <1>3, <1>4 DEF Undisturbed, VerdictInv, Listed
  <2>2. Verdict(w, r) = Ruling(r, w, age[r])
    BY <2>1 DEF Verdict, Ruling
  <2>3. age[r] \in Nat
    BY RequestType
  <2>4. pass'.writes[r] = None => server[r].phase = Ruling(r, w, age[r])
    <3>1. r \in Differing(w) => Judged(cache[r], w, Verdict(w, r)) \in Object
      BY <2>1, LeftsRange, JudgedType DEF TypeOK, Listed
    <3>2. pass'.writes[r] = None => r \notin Differing(w)
      BY <1>2, <3>1, NoneAssumption
    <3> QED BY <2>1, <2>2, <3>2 DEF Differing, Differs
  <2>5. Ruling(r, w, age[r]) = "Active"
           => pass'.left <= server[r].duration - age[r] /\ pass'.phase # "Asleep"
    <3>1. Ruling(r, w, age[r]) = "Active" => r \in Holding(w)
      BY <2>1, <2>2 DEF Holding
    <3>2. r \in Holding(w) => pass'.left <= server[r].duration - age[r]
      BY <1>2, <2>1, LeftsRange, EarliestIsFirst DEF Lefts
    <3>3. r \in Holding(w) => pass'.phase # "Asleep"
      BY <1>2 DEF PhaseOf
    <3> QED BY <3>1, <3>2, <3>3
  <2>6. Concluded(r)'
    BY <1>2, <1>3, <2>3, <2>4, <2>5 DEF Concluded, Ruling
  <2> QED BY <2>1, <2>2, <2>6
<1>5. PassInv'
  <2> SUFFICES ASSUME Undisturbed(w)'
               PROVE  /\ \A r \in Requests : pass'.writes[r] # None => r \in pass'.valid
                      /\ pass'.phase = "WakeRequested" =>
                           \E r \in Requests :
                             /\ server[r] # None /\ age[r] < AgeBound
                             /\ Ruling(r, w, age[r] - 0) = "Active"
    BY <1>2, <1>3, <1>4 DEF PassInv, Ruling
  <2>1. ASSUME NEW r \in Requests, pass'.writes[r] # None PROVE r \in pass'.valid
    BY <1>2, <1>3, <2>1 DEF Undisturbed
  <2>2. ASSUME pass'.phase = "WakeRequested"
        PROVE  \E r \in Requests : /\ server[r] # None /\ age[r] < AgeBound
                                   /\ Ruling(r, w, age[r] - 0) = "Active"
    <3>1. PICK r \in Holding(w) : TRUE
      BY <1>2, <2>2 DEF PhaseOf
    <3>2. r \in Requests /\ server[r] # None
      BY <1>3, <3>1 DEF Undisturbed, VerdictInv, Holding, Listed
    <3>3. Ruling(r, w, age[r]) = "Active" /\ age[r] \in Nat
      BY <1>4, <3>1, <3>2, RequestType DEF Holding
    <3>4. /\ server[r].duration \in Durations /\ server[r].duration \in Nat
          /\ cap[w] \in Nat
      BY <3>2, RequestType, DurationAssumption DEF TypeOK
    <3>5. age[r] < server[r].duration
      BY <3>3, <3>4, VerdictTurnsOnce DEF Ruling
    <3>6. age[r] < AgeBound
      BY <3>3, <3>4, <3>5, AgeAssumption, GapAssumption
    <3> QED BY <3>2, <3>3, <3>6
  <2> QED BY <2>1, <2>2
<1>6. ASSUME NEW v \in Windows PROVE RestInv(v)'
  <2>1. CASE v = w
    BY <1>1, <1>2, <2>1 DEF RestInv
  <2>2. CASE v # w
    <3>1. Undisturbed(v)' => Undisturbed(v)
      BY <1>3, <2>2 DEF Undisturbed, TypeOK
    <3> QED BY <1>3, <3>1, RestStays DEF VerdictInv
  <2> QED BY <2>1, <2>2
<1> QED BY <1>3, <1>5, <1>6 DEF VerdictInv

\* A pass that is over, when nothing has happened since it began, leaves the window
\* with verdicts that are right and a wait that ends in time.
LEMMA FinishPassLeaves ==
    ASSUME TypeOK, TypeOK', VerdictInv, FinishPass
    PROVE  VerdictInv'
<1>0. PICK w \in Windows : w = pass.window
  BY PassType DEF FinishPass
<1>1. /\ pass # None /\ w = pass.window /\ pass' = None
      /\ \A r \in Requests : pass.writes[r] = None
      /\ UNCHANGED <<server, age, cache, current, cap, scheduled, up, queued>>
      /\ failed' = [failed EXCEPT ![w] = FALSE]
      /\ due' = [due EXCEPT ![w] = Requeued(@, RequeueAfter(pass.left))]
      /\ phase' = IF pass.fresh THEN [phase EXCEPT ![w] = pass.phase] ELSE phase
  BY <1>0 DEF FinishPass
<1>2. w = pass.window /\ w \in Windows /\ pass.age \in Nat /\ pass.age <= MaxPass /\ pass.left \in Int
  BY <1>0, <1>1, PassType, BoundAssumption
<1>3. \A v \in Windows : Undisturbed(v)' <=> Undisturbed(v)
  BY <1>1 DEF Undisturbed
<1>4. ASSUME NEW v \in Windows, v # w PROVE RestInv(v)'
  BY <1>1, <1>2, <1>3, <1>4, RestStays DEF VerdictInv, TypeOK
<1>5. ASSUME Undisturbed(w)
      PROVE  /\ \A r \in Requests : server[r] # None => age[r] = AgeBound \/ Concluded(r)
             /\ pass.phase = "WakeRequested" =>
                  \E r \in Requests : /\ server[r] # None /\ age[r] < AgeBound
                                      /\ Ruling(r, w, age[r] - pass.age) = "Active"
             /\ phase'[w] = pass.phase
  BY <1>1, <1>2, <1>5 DEF VerdictInv, PassInv, TypeOK
<1>6. due'[w] # None /\ due'[w] \in Nat
      /\ (due'[w] <= pass.left + Margin \/ due'[w] <= MinGap)
  <2>1. /\ RequeueAfter(pass.left) \in Nat \ {0}
        /\ RequeueAfter(pass.left) <= pass.left + Margin \/ RequeueAfter(pass.left) <= MinGap
    BY <1>2, DelayRange
  <2>2. due'[w] = Requeued(due[w], RequeueAfter(pass.left)) /\ due[w] \in (Nat \ {0}) \union {None}
    BY <1>1, <1>2 DEF TypeOK
  <2>3. /\ Requeued(due[w], RequeueAfter(pass.left)) \in Nat \ {0}
        /\ Requeued(due[w], RequeueAfter(pass.left)) # None
        /\ Requeued(due[w], RequeueAfter(pass.left)) <= RequeueAfter(pass.left)
    BY <2>1, <2>2, WaitRange
  <2> QED BY <1>2, <2>1, <2>2, <2>3, GapAssumption
<1>7. ASSUME NEW r \in Requests, server[r] # None, age[r] # AgeBound, Concluded(r)
      PROVE  /\ Ruling(r, w, age[r] - pass.age) = "Active" =>
                   LapseIsAwaited(r, w)' /\ pass.phase # "Asleep"
             /\ server[r].phase = Ruling(r, w, age[r] - pass.age)
             /\ Ruling(r, w, age[r] - pass.age) # "Active" =>
                   Ruling(r, w, age[r]) = Ruling(r, w, age[r] - pass.age)
  <2>1. /\ age[r] \in Nat /\ server[r].duration \in Nat /\ cap[w] \in Nat
        /\ age[r] - pass.age \in Nat /\ age[r] - pass.age <= age[r] /\ 0 <= age[r] - pass.age
    <3>1. age[r] \in Nat /\ server[r].duration \in Nat /\ cap[w] \in Nat
      BY <1>2, <1>7, RequestType, DurationAssumption DEF TypeOK
    <3>2. age[r] - pass.age >= 0
      BY <1>7 DEF Concluded
    <3> QED BY <1>2, <3>1, <3>2
  <2>2. ASSUME Ruling(r, w, age[r] - pass.age) = "Active"
        PROVE  LapseIsAwaited(r, w)' /\ pass.phase # "Asleep"
    <3>1. age[r] - pass.age < server[r].duration /\ Ruling(r, w, 0) = "Active"
      BY <2>1, <2>2, VerdictTurnsOnce DEF Ruling
    <3>2. pass.left <= server[r].duration - age[r] /\ pass.phase # "Asleep"
      BY <1>2, <1>7, <2>2 DEF Concluded
    <3>3. age[r] + due'[w] <= server[r].duration + Lateness
      <4>1. Lateness \in Nat /\ Margin <= Lateness /\ MaxPass + MinGap <= Lateness
        BY GapAssumption, BoundAssumption DEF Lateness
      <4>2. CASE due'[w] <= pass.left + Margin
        BY <1>2, <1>6, <2>1, <3>2, <4>1, <4>2, GapAssumption
      <4>3. CASE due'[w] <= MinGap
        BY <1>2, <1>6, <2>1, <3>1, <4>1, <4>3, GapAssumption, BoundAssumption
      <4> QED BY <1>6, <4>2, <4>3
    <3> QED BY <1>1, <1>6, <3>1, <3>2, <3>3 DEF LapseIsAwaited, Ruling
  <2>3. server[r].phase = Ruling(r, w, age[r] - pass.age)
    BY <1>1, <1>7 DEF Concluded
  <2>4. Ruling(r, w, age[r] - pass.age) # "Active" =>
            Ruling(r, w, age[r]) = Ruling(r, w, age[r] - pass.age)
    BY <2>1, VerdictTurnsOnce DEF Ruling
  <2> QED BY <2>2, <2>3, <2>4
<1>8. RestInv(w)'
  <2> SUFFICES ASSUME Undisturbed(w)
               PROVE  /\ \A r \in Requests : server[r] # None =>
                           \/ age[r] = AgeBound
                           \/ server[r].phase = "Active" /\ LapseIsAwaited(r, w)'
                           \/ /\ server[r].phase # "Active"
                              /\ server[r].phase = Ruling(r, w, age[r])
                      /\ \A r \in Requests :
                            server[r] # None /\ Ruling(r, w, age[r]) = "Active"
                            => pass.phase # "Asleep"
                      /\ pass.phase = "WakeRequested" =>
                            \E r \in Requests : server[r] # None /\ LapseIsAwaited(r, w)'
    BY <1>1, <1>2, <1>3, <1>5 DEF RestInv, LapseIsAwaited, Ruling
  <2>1. ASSUME NEW r \in Requests, server[r] # None
        PROVE  \/ age[r] = AgeBound
               \/ server[r].phase = "Active" /\ LapseIsAwaited(r, w)'
               \/ server[r].phase # "Active" /\ server[r].phase = Ruling(r, w, age[r])
    BY <1>5, <1>7, <2>1
  <2>2. ASSUME NEW r \in Requests, server[r] # None, Ruling(r, w, age[r]) = "Active"
        PROVE  pass.phase # "Asleep"
    <3>1. /\ age[r] \in Nat /\ server[r].duration \in Nat /\ cap[w] \in Nat
          /\ server[r].duration \in Durations
      BY <1>2, <2>2, RequestType, DurationAssumption DEF TypeOK
    <3>2. age[r] < server[r].duration
      BY <2>2, <3>1, VerdictTurnsOnce DEF Ruling
    <3>3. age[r] # AgeBound
      BY <3>1, <3>2, AgeAssumption, GapAssumption
    <3>4. Ruling(r, w, age[r] - pass.age) = "Active"
      BY <1>5, <1>7, <2>2, <3>3
    <3> QED BY <1>5, <1>7, <2>2, <3>3, <3>4
  <2>3. ASSUME pass.phase = "WakeRequested"
        PROVE  \E r \in Requests : server[r] # None /\ LapseIsAwaited(r, w)'
    <3>1. PICK r \in Requests : /\ server[r] # None /\ age[r] < AgeBound
                               /\ Ruling(r, w, age[r] - pass.age) = "Active"
      BY <1>5, <2>3
    <3>2. age[r] # AgeBound
      BY <3>1, RequestType, AgeAssumption
    <3> QED BY <1>5, <1>7, <3>1, <3>2
  <2> QED BY <2>1, <2>2, <2>3
<1>9. PassInv'
  BY <1>1 DEF PassInv
<1> QED BY <1>1, <1>4, <1>8, <1>9 DEF VerdictInv

\* A unit later the verdicts are a unit older and the waits a unit shorter.
LEMMA TickKeeps ==
    ASSUME TypeOK, TypeOK', VerdictInv, Tick
    PROVE  VerdictInv'
<1>1. /\ \A r \in Requests : age'[r] = IF cache[r] = None /\ server[r] = None THEN 0
                                ELSE IF age[r] < AgeBound THEN age[r] + 1 ELSE AgeBound
      /\ \A w \in Windows : queued'[w] = (queued[w] \/ Ended(due[w]))
      /\ \A w \in Windows : due'[w] = Elapsed(due[w])
      /\ pass' = IF pass = None THEN None ELSE [pass EXCEPT !.age = @ + 1, !.left = @ - 1]
      /\ UNCHANGED <<server, cache, current, cap, scheduled, up, failed, phase>>
  BY DEF Tick
<1>2. \A w \in Windows : Undisturbed(w)' => Undisturbed(w) /\ ~Ended(due[w])
  BY <1>1 DEF Undisturbed
<1>3. ASSUME NEW r \in Requests, server[r] # None
      PROVE  /\ age[r] \in Nat /\ server[r].duration \in Nat /\ server[r].duration \in Durations
             /\ age'[r] = AgeBound \/ age'[r] = age[r] + 1
             /\ age[r] = AgeBound => age'[r] = AgeBound
             /\ age[r] < AgeBound => age'[r] = age[r] + 1
             /\ age[r] <= AgeBound
  BY <1>1, <1>3, RequestType, AgeAssumption
<1>4. ASSUME NEW w \in Windows PROVE RestInv(w)'
  <2> SUFFICES ASSUME Undisturbed(w)', ~failed'[w], pass' # None => pass'.window # w
               PROVE  /\ \A r \in Requests : server[r] # None =>
                           \/ age'[r] = AgeBound
                           \/ server[r].phase = "Active" /\ LapseIsAwaited(r, w)'
                           \/ /\ server[r].phase # "Active"
                              /\ server[r].phase = Ruling(r, w, age'[r])
                      /\ \A r \in Requests :
                            server[r] # None /\ Ruling(r, w, age'[r]) = "Active"
                            => phase[w] # "Asleep"
                      /\ phase[w] = "WakeRequested" =>
                            \E r \in Requests : server[r] # None /\ LapseIsAwaited(r, w)'
    BY <1>1 DEF RestInv, Ruling
  <2>1. Undisturbed(w) /\ ~Ended(due[w])
    BY <1>2
  <2>2. pass # None => pass.window # w
    <3>1. pass # None => pass' # None /\ pass'.window = pass.window
      <4>1. pass # None => pass' \in Pass
        <5> SUFFICES ASSUME pass # None PROVE [pass EXCEPT !.age = @ + 1, !.left = @ - 1] # None
          BY <1>1 DEF TypeOK
        <5>1. pass.age \in Int /\ pass.left \in Int /\ pass.age < MaxPass
          BY PassType, BoundAssumption DEF Tick
        <5>2. pass.age + 1 \in 0 .. MaxPass /\ pass.left - 1 \in Int
          BY <5>1, PassType, BoundAssumption
        <5>3. [pass EXCEPT !.age = @ + 1, !.left = @ - 1] \in Pass
          BY <5>2, PassType DEF Pass
        <5> QED BY <5>3, NoneAssumption
      <4> QED BY <1>1, <4>1, PassType, NoneAssumption DEF Pass
    <3> QED BY <3>1
  <2>3. /\ \A r \in Requests : server[r] # None =>
              \/ age[r] = AgeBound
              \/ server[r].phase = "Active" /\ LapseIsAwaited(r, w)
              \/ server[r].phase # "Active" /\ server[r].phase = Ruling(r, w, age[r])
        /\ \A r \in Requests : server[r] # None /\ Ruling(r, w, age[r]) = "Active"
              => phase[w] # "Asleep"
        /\ phase[w] = "WakeRequested" =>
              \E r \in Requests : server[r] # None /\ LapseIsAwaited(r, w)
    BY <1>1, <2>1, <2>2 DEF VerdictInv, RestInv
  <2>4. ASSUME NEW r \in Requests, server[r] # None, LapseIsAwaited(r, w)
        PROVE  LapseIsAwaited(r, w)'
    <3>1. /\ due[w] # None /\ due[w] \in Nat
          /\ age[r] + due[w] <= server[r].duration + Lateness
      BY <2>4 DEF LapseIsAwaited, TypeOK
    <3>2. due'[w] # None /\ due'[w] = due[w] - 1
      BY <1>1, <2>1, <3>1, ElapsedRange DEF TypeOK
    <3>3. age'[r] \in Nat /\ age'[r] <= age[r] + 1 /\ age[r] \in Nat /\ server[r].duration \in Nat
      <4>1. age[r] <= AgeBound
        BY <1>3, <2>4
      <4> QED BY <1>3, <2>4, <4>1, AgeAssumption
    <3>4. Lateness \in Nat
      BY GapAssumption, BoundAssumption DEF Lateness
    <3>5. age'[r] + due'[w] <= server[r].duration + Lateness
      BY <3>1, <3>2, <3>3, <3>4
    <3> QED BY <1>1, <2>4, <3>2, <3>5 DEF LapseIsAwaited, Ruling
  <2>5. ASSUME NEW r \in Requests, server[r] # None
        PROVE  /\ Ruling(r, w, age'[r]) = "Active" => Ruling(r, w, age[r]) = "Active"
               /\ Ruling(r, w, age[r]) # "Active" =>
                     Ruling(r, w, age'[r]) = Ruling(r, w, age[r])
    <3>1. age'[r] \in Nat /\ age[r] <= age'[r] /\ age[r] \in Nat
      BY <1>3, <2>5, AgeAssumption
    <3>2. server[r].duration \in Nat /\ cap[w] \in Nat
      BY <1>3, <2>5, DurationAssumption DEF TypeOK
    <3> QED BY <3>1, <3>2, VerdictTurnsOnce DEF Ruling
  <2>6. ASSUME NEW r \in Requests, server[r] # None
        PROVE  \/ age'[r] = AgeBound
               \/ server[r].phase = "Active" /\ LapseIsAwaited(r, w)'
               \/ server[r].phase # "Active" /\ server[r].phase = Ruling(r, w, age'[r])
    BY <1>3, <2>3, <2>4, <2>5, <2>6
  <2> QED BY <2>3, <2>4, <2>5, <2>6
<1>5. PassInv'
  <2> SUFFICES ASSUME pass' # None, Undisturbed(pass.window)' PROVE PassInv'
    BY DEF PassInv
  <2>1. pass # None
    BY <1>1
  <2>2. PICK w \in Windows : w = pass.window
    BY <2>1, PassType
  <2>3. /\ pass.age \in Nat /\ pass.left \in Int /\ pass'.window = w
        /\ pass'.age = pass.age + 1 /\ pass'.left = pass.left - 1
        /\ pass'.writes = pass.writes /\ pass'.valid = pass.valid
        /\ pass'.phase = pass.phase /\ pass'.fresh = pass.fresh
    BY <1>1, <2>1, <2>2, PassType, BoundAssumption DEF Pass
  <2>4. Undisturbed(w)
    <3>1. Undisturbed(w)'
      BY <2>3 DEF Undisturbed
    <3> QED BY <1>2, <3>1
  <2>5. /\ pass.fresh
        /\ \A r \in Requests : pass.writes[r] # None => r \in pass.valid
        /\ \A r \in Requests : server[r] # None => age[r] = AgeBound \/ Concluded(r)
        /\ pass.phase = "WakeRequested" =>
              \E r \in Requests : /\ server[r] # None /\ age[r] < AgeBound
                                  /\ Ruling(r, w, age[r] - pass.age) = "Active"
    BY <2>1, <2>2, <2>4 DEF VerdictInv, PassInv
  <2>6. ASSUME NEW r \in Requests, server[r] # None, age'[r] # AgeBound
        PROVE  Concluded(r)'
    <3>1. age'[r] = age[r] + 1 /\ Concluded(r) /\ age[r] \in Nat
      BY <1>3, <2>5, <2>6
    <3>2. age'[r] - pass'.age = age[r] - pass.age
      BY <2>3, <3>1
    <3>3. server[r].duration \in Nat
      BY <1>3, <2>6
    <3>4. pass.left <= server[r].duration - age[r] => pass'.left <= server[r].duration - age'[r]
      BY <2>3, <3>1, <3>3
    <3> QED BY <1>1, <2>2, <2>3, <3>1, <3>2, <3>4 DEF Concluded, Ruling
  <2>7. ASSUME pass.phase = "WakeRequested"
        PROVE  \E r \in Requests : /\ server[r] # None /\ age'[r] < AgeBound
                                   /\ Ruling(r, w, age'[r] - pass'.age) = "Active"
    <3>1. PICK r \in Requests : /\ server[r] # None /\ age[r] < AgeBound
                               /\ Ruling(r, w, age[r] - pass.age) = "Active"
      BY <2>5, <2>7
    <3>2. age'[r] = age[r] + 1 /\ age[r] \in Nat
      BY <1>3, <3>1
    <3>3. age'[r] - pass'.age = age[r] - pass.age
      BY <2>3, <3>2
    <3>4. age[r] - pass.age < server[r].duration
      <4>1. age[r] - pass.age >= 0
        BY <2>5, <3>1, AgeAssumption DEF Concluded
      <4>2. age[r] - pass.age \in Nat /\ server[r].duration \in Nat /\ cap[w] \in Nat
        <5>1. server[r].duration \in Nat /\ cap[w] \in Nat
          BY <1>3, <3>1, DurationAssumption DEF TypeOK
        <5> QED BY <2>3, <3>2, <4>1, <5>1
      <4> QED BY <3>1, <4>2, VerdictTurnsOnce DEF Ruling
    <3>5. pass'.age <= MaxPass /\ pass'.age \in Nat
      <4>1. pass' \in Pass
        BY DEF TypeOK
      <4> QED BY <4>1, BoundAssumption DEF Pass
    <3>6. age'[r] < server[r].duration + MaxPass
      BY <1>3, <2>3, <3>1, <3>2, <3>4, <3>5, BoundAssumption
    <3>7. server[r].duration + MaxPass + MinGap <= AgeBound
      BY <1>3, <3>1, AgeAssumption
    <3>8. age'[r] < AgeBound
      BY <1>3, <3>1, <3>2, <3>6, <3>7, AgeAssumption, BoundAssumption, GapAssumption
    <3> QED BY <3>1, <3>3, <3>8
  <2> QED BY <1>1, <2>2, <2>3, <2>5, <2>6, <2>7 DEF PassInv, Ruling
<1>6. pass' # None => up'
  BY <1>1 DEF VerdictInv
<1> QED BY <1>1, <1>4, <1>5, <1>6 DEF VerdictInv

\* A version that somebody writes is on its way, and brings every window back.
LEMMA WrittenDisturbs ==
    ASSUME TypeOK, TypeOK', VerdictInv, NEW r \in Requests, NEW obj, Written(r, obj),
           cache' = cache, up' = up
    PROVE  VerdictInv'
<1>1. ~current'[r] /\ \A q \in Requests : current'[q] => current[q] /\ server'[q] = server[q]
  BY DEF Written, TypeOK
<1>2. \A w \in Windows : ~Undisturbed(w)'
  BY <1>1 DEF Undisturbed
<1>3. pass' # None => pass # None
  BY DEF Written
<1> QED BY <1>1, <1>2, <1>3, AllDisturbed DEF VerdictInv

\* A pass that ends in an error claims nothing.
LEMMA ErrorClaimsNothing ==
    ASSUME TypeOK, TypeOK', VerdictInv, pass # None, EndInError
    PROVE  VerdictInv'
<1>0. PICK w \in Windows : w = pass.window
  BY PassType
<1>1. /\ w = pass.window /\ pass' = None
      /\ failed' = [failed EXCEPT ![w] = TRUE]
      /\ \E backoff \in 1 .. MaxBackoff : due' = [due EXCEPT ![w] = Requeued(@, backoff)]
      /\ UNCHANGED <<server, age, cache, current, cap, scheduled, up, queued, phase>>
  BY <1>0 DEF EndInError
<1>2. \A v \in Windows : Undisturbed(v)' <=> Undisturbed(v)
  BY <1>1 DEF Undisturbed
<1>3. ASSUME NEW v \in Windows PROVE RestInv(v)'
  <2>1. CASE v = w
    BY <1>1, <2>1 DEF RestInv, TypeOK
  <2>2. CASE v # w
    BY <1>1, <1>2, <2>2, RestStays DEF VerdictInv, TypeOK
  <2> QED BY <2>1, <2>2
<1> QED BY <1>1, <1>3 DEF VerdictInv, PassInv

\* Every step keeps what the verdicts rest on.
LEMMA NextVerdictInv == TypeOK /\ TypeOK' /\ VerdictInv /\ [Next]_vars => VerdictInv'
<1> SUFFICES ASSUME TypeOK, TypeOK', VerdictInv, [Next]_vars PROVE VerdictInv'
  OBVIOUS
<1>1. ASSUME NEW w \in Windows, BeginPass(w) PROVE VerdictInv'
  BY <1>1, BeginPassConcludes
<1>2. ASSUME NEW r \in Requests, Record(r) PROVE VerdictInv'
  <2>1. CASE r \in pass.valid
    <3>1. /\ ~current'[r]
          /\ \A q \in Requests : current'[q] => current[q] /\ server'[q] = server[q]
      BY <1>2, <2>1 DEF Record, TypeOK
    <3>2. \A w \in Windows : ~Undisturbed(w)'
      BY <3>1 DEF Undisturbed
    <3> QED BY <1>2, <3>1, <3>2, AllDisturbed DEF VerdictInv, Record
  <2>2. CASE r \notin pass.valid
    <3>1. /\ pass # None /\ pass.writes[r] # None
          /\ UNCHANGED <<server, current, age, cache, cap, scheduled, up, queued, due,
                        failed, phase>>
          /\ pass'.window = pass.window /\ pass' # None
      <4>1. pass' = [pass EXCEPT !.writes[r] = None, !.valid = @ \ {r}] /\ pass # None
        BY <1>2 DEF Record
      <4>2. pass' \in Pass /\ pass'.window = pass.window
        BY <4>1, PassType DEF Pass
      <4> QED BY <1>2, <2>2, <4>2, NoneAssumption DEF Record
    <3>2. \A v \in Windows : Undisturbed(v)' <=> Undisturbed(v)
      BY <3>1 DEF Undisturbed
    <3>3. \A v \in Windows : RestInv(v)'
      BY <3>1, <3>2, RestStays DEF VerdictInv
    <3>4. ~Undisturbed(pass.window)
      BY <2>2, <3>1 DEF VerdictInv, PassInv
    <3>5. PassInv'
      BY <3>1, <3>4 DEF PassInv, Undisturbed
    <3> QED BY <3>1, <3>3, <3>5 DEF VerdictInv
  <2> QED BY <2>1, <2>2
<1>3. ASSUME NEW r \in Requests, RecordMissing(r) PROVE VerdictInv'
  BY <1>3, ErrorClaimsNothing DEF RecordMissing
<1>4. CASE FailPass
  BY <1>4, ErrorClaimsNothing DEF FailPass
<1>5. CASE FinishPass
  BY <1>5, FinishPassLeaves
<1>6. CASE Crash
  <2>1. \A w \in Windows : ~Undisturbed(w)'
    BY <1>6 DEF Crash, Undisturbed
  <2> QED BY <1>6, <2>1, AllDisturbed DEF Crash, VerdictInv
<1>7. CASE Restart
  <2>1. \A w \in Windows : ~Undisturbed(w)'
    BY <1>7 DEF Restart, Undisturbed
  <2> QED BY <1>7, <2>1, AllDisturbed DEF Restart, VerdictInv
<1>8. ASSUME NEW r \in Requests, Deliver(r) PROVE VerdictInv'
  <2>1. \A w \in Windows : ~Undisturbed(w)'
    BY <1>8 DEF Deliver, Undisturbed
  <2>2. \A q \in Requests : current'[q] => cache'[q] = server'[q]
    BY <1>8 DEF Deliver, VerdictInv, TypeOK
  <2> QED BY <1>8, <2>1, <2>2, AllDisturbed DEF Deliver, VerdictInv
<1>9. CASE Tick
  BY <1>9, TickKeeps
<1>10. ASSUME NEW r \in Requests, Create(r) PROVE VerdictInv'
  BY <1>10, WrittenDisturbs DEF Create
<1>11. ASSUME NEW r \in Requests, Delete(r) PROVE VerdictInv'
  BY <1>11, WrittenDisturbs DEF Delete
<1>12. ASSUME NEW r \in Requests, EditDuration(r) PROVE VerdictInv'
  BY <1>12, WrittenDisturbs DEF EditDuration
<1>13. ASSUME NEW w \in Windows, EditCap(w) PROVE VerdictInv'
  <2>1. /\ UNCHANGED <<server, age, cache, current, scheduled, up, due, failed, phase>>
        /\ \A v \in Windows : v # w => cap'[v] = cap[v]
        /\ queued' = IF up THEN [queued EXCEPT ![w] = TRUE] ELSE queued
        /\ pass' = IF pass # None /\ pass.window = w THEN [pass EXCEPT !.fresh = FALSE]
                   ELSE pass
    BY <1>13 DEF EditCap, Reenqueued, TypeOK
  <2>2. ~Undisturbed(w)'
    BY <2>1 DEF Undisturbed, TypeOK
  <2>3. \A v \in Windows : Undisturbed(v)' => Undisturbed(v)
    BY <2>1 DEF Undisturbed, TypeOK
  <2>4. pass # None => pass' # None /\ pass'.window = pass.window
    <3> SUFFICES ASSUME pass # None, pass.window = w
                 PROVE  pass' # None /\ pass'.window = pass.window
      BY <2>1
    <3>1. pass' \in Pass /\ pass'.window = w
      BY <2>1, PassType DEF Pass
    <3> QED BY <3>1, NoneAssumption
  <2>5. ASSUME NEW v \in Windows PROVE RestInv(v)'
    <3>1. CASE v = w
      BY <2>2, <3>1 DEF RestInv
    <3>2. CASE v # w
      BY <2>1, <2>3, <2>4, <3>2, RestStays DEF VerdictInv
    <3> QED BY <3>1, <3>2
  <2>6. PassInv'
    <3>1. CASE pass # None /\ pass.window = w
      <4>1. pass'.window = w
        BY <2>4, <3>1
      <4> QED BY <2>2, <4>1 DEF PassInv, Undisturbed
    <3>2. CASE ~(pass # None /\ pass.window = w)
      <4>1. pass' = pass
        BY <2>1, <3>2
      <4>2. pass # None => /\ pass.window \in Windows
                           /\ cap'[pass.window] = cap[pass.window]
                           /\ Undisturbed(pass.window)' => Undisturbed(pass.window)
        <5> SUFFICES ASSUME pass # None
                     PROVE  /\ pass.window \in Windows
                            /\ cap'[pass.window] = cap[pass.window]
                            /\ Undisturbed(pass.window)' => Undisturbed(pass.window)
          OBVIOUS
        <5>1. pass.window \in Windows /\ pass.window # w
          BY <3>2, PassType
        <5>2. Undisturbed(pass.window)' => Undisturbed(pass.window)
          BY <2>1, <4>1, <5>1 DEF Undisturbed, TypeOK
        <5> QED BY <2>1, <5>1, <5>2
      <4> QED BY <2>1, <4>1, <4>2, PassStays DEF VerdictInv
    <3> QED BY <3>1, <3>2
  <2>7. pass' # None => pass # None
    BY <2>1
  <2> QED BY <2>1, <2>5, <2>6, <2>7 DEF VerdictInv
<1>14. ASSUME NEW w \in Windows, Boundary(w) PROVE VerdictInv'
  <2>1. /\ UNCHANGED <<server, age, cache, current, cap, up, due, failed, phase, pass>>
        /\ \A v \in Windows : queued[v] => queued'[v]
    BY <1>14 DEF Boundary, Reenqueued, TypeOK
  <2>2. \A v \in Windows : Undisturbed(v)' => Undisturbed(v)
    BY <2>1 DEF Undisturbed
  <2>3. \A v \in Windows : RestInv(v)'
    BY <2>1, <2>2, RestStays DEF VerdictInv
  <2>4. pass # None => (Undisturbed(pass.window)' => Undisturbed(pass.window))
    BY <2>1, PassType DEF Undisturbed
  <2>5. PassInv'
    BY <2>1, <2>4, PassStays DEF VerdictInv
  <2> QED BY <2>1, <2>3, <2>5 DEF VerdictInv
<1>15. CASE UNCHANGED vars
  BY <1>15 DEF vars, VerdictInv, PassInv, RestInv, Undisturbed, Concluded, Ruling,
               LapseIsAwaited
<1> QED BY <1>1, <1>2, <1>3, <1>4, <1>5, <1>6, <1>7, <1>8, <1>9, <1>10, <1>11, <1>12,
           <1>13, <1>14, <1>15 DEF Next, System, Environment

\* What a pass concludes stays true until it is over, what it leaves behind until the
\* next, and the next begins in time: the inductive invariant.
THEOREM VerdictsHold == Spec => []VerdictInv
<1> QED BY InitTypeOK, NextTypeOK, InitVerdictInv, NextVerdictInv, PTL DEF Spec

-----------------------------------------------------------------------------
(* The promises.                                                            *)

\* A lapse that is awaited lies at most Lateness units back.
LEMMA AwaitedIsLate ==
    ASSUME TypeOK, NEW w \in Windows, NEW r \in Requests, server[r] # None,
           LapseIsAwaited(r, w)
    PROVE  /\ age[r] < AgeBound
           /\ \E k \in 0 .. Lateness :
                 k <= age[r] /\ Classify(server[r].duration, cap[w], age[r] - k) = "Active"
<1>1. /\ age[r] \in Nat /\ server[r].duration \in Nat /\ server[r].duration \in Durations
      /\ cap[w] \in Nat
  BY RequestType, DurationAssumption DEF TypeOK
<1>2. /\ due[w] \in Nat \ {0}
      /\ age[r] + due[w] <= server[r].duration + Lateness
      /\ Classify(server[r].duration, cap[w], 0) = "Active"
  BY DEF LapseIsAwaited, TypeOK, Ruling
<1>3. Lateness \in Nat /\ server[r].duration + Lateness <= AgeBound
  BY <1>1, AgeAssumption, GapAssumption, BoundAssumption DEF Lateness
<1>4. age[r] < server[r].duration + Lateness /\ age[r] < AgeBound
  BY <1>1, <1>2, <1>3, AgeAssumption
<1>5. cap[w] > 0 /\ server[r].duration <= cap[w] /\ 0 < server[r].duration
  BY <1>1, <1>2, VerdictTurnsOnce
<1>6. PICK k \in 0 .. Lateness : k <= age[r] /\ age[r] - k < server[r].duration
  <2>1. CASE age[r] <= Lateness
    <3>1. age[r] \in 0 .. Lateness /\ age[r] - age[r] = 0
      BY <1>1, <1>3, <2>1
    <3> QED BY <1>1, <1>5, <3>1
  <2>2. CASE age[r] > Lateness
    <3>1. Lateness \in 0 .. Lateness /\ age[r] - Lateness < server[r].duration
      BY <1>1, <1>3, <1>4
    <3> QED BY <1>1, <1>3, <2>2, <3>1
  <2> QED BY <1>1, <1>3, <2>1, <2>2
<1>7. age[r] - k \in Nat
  BY <1>1, <1>3, <1>6
<1>8. Classify(server[r].duration, cap[w], age[r] - k) = "Active"
  BY <1>1, <1>5, <1>6, <1>7, VerdictTurnsOnce
<1> QED BY <1>4, <1>6, <1>8

\* At rest, what the last passes left behind is there for every window.
LEMMA RestIsUndisturbed ==
    ASSUME VerdictInv, AtRest, NEW w \in Windows
    PROVE  /\ \A r \in Requests : server[r] # None =>
                 \/ age[r] = AgeBound
                 \/ server[r].phase = "Active" /\ LapseIsAwaited(r, w)
                 \/ server[r].phase # "Active" /\ server[r].phase = Ruling(r, w, age[r])
           /\ \A r \in Requests : server[r] # None /\ Ruling(r, w, age[r]) = "Active"
                 => phase[w] # "Asleep"
           /\ phase[w] = "WakeRequested" =>
                 \E r \in Requests : server[r] # None /\ LapseIsAwaited(r, w)
<1>1. Undisturbed(w) /\ ~failed[w] /\ pass = None
  BY DEF AtRest, Undisturbed
<1> QED BY <1>1 DEF VerdictInv, RestInv

\* Every request's status is the verdict as of a moment ago, through conflicts, failed
\* writes, edits and crashes.
THEOREM EveryVerdictIsTimely == Spec => []AnsweredInTime
<1>1. ASSUME TypeOK, VerdictInv PROVE AnsweredInTime
  <2> SUFFICES ASSUME AtRest, NEW w \in Windows, NEW r \in Requests, server[r] # None,
                      age[r] # AgeBound
               PROVE  \E k \in 0 .. Lateness : /\ k <= age[r]
                        /\ server[r].phase = Classify(server[r].duration, cap[w], age[r] - k)
    BY DEF AnsweredInTime, Lately
  <2>1. CASE server[r].phase = "Active" /\ LapseIsAwaited(r, w)
    BY <1>1, <2>1, AwaitedIsLate
  <2>2. CASE server[r].phase # "Active" /\ server[r].phase = Ruling(r, w, age[r])
    <3>1. age[r] \in Nat /\ age[r] - 0 = age[r]
      BY <1>1, RequestType
    <3>2. 0 \in 0 .. Lateness /\ 0 <= age[r]
      BY <3>1, GapAssumption, BoundAssumption DEF Lateness
    <3> QED BY <2>2, <3>1, <3>2 DEF Ruling
  <2> QED BY <1>1, <2>1, <2>2, RestIsUndisturbed
<1> QED BY <1>1, TypeCorrect, VerdictsHold, PTL

\* A namespace is held awake by a request that holds or that lapsed a moment ago.
THEOREM NothingElseHolds == Spec => []HeldByARequest
<1>1. ASSUME TypeOK, VerdictInv PROVE HeldByARequest
  <2> SUFFICES ASSUME AtRest, NEW w \in Windows, phase[w] = "WakeRequested"
               PROVE  \E r \in Requests :
                         /\ server[r] # None /\ age[r] < AgeBound
                         /\ \E k \in 0 .. Lateness : /\ k <= age[r]
                              /\ Classify(server[r].duration, cap[w], age[r] - k) = "Active"
    BY DEF HeldByARequest, Lately
  <2>1. PICK r \in Requests : server[r] # None /\ LapseIsAwaited(r, w)
    BY <1>1, RestIsUndisturbed
  <2> QED BY <1>1, <2>1, AwaitedIsLate
<1> QED BY <1>1, TypeCorrect, VerdictsHold, PTL

\* And a request that holds keeps every window of its namespace from being asleep.
THEOREM WhoeverAsksIsHeard == Spec => []HoldsAreHonoured
<1>1. ASSUME TypeOK, VerdictInv PROVE HoldsAreHonoured
  BY <1>1, RestIsUndisturbed DEF HoldsAreHonoured, Ruling
<1> QED BY <1>1, TypeCorrect, VerdictsHold, PTL

-----------------------------------------------------------------------------
(* What whoever asked may rely on.                                          *)

LEMMA InitWriteInv == Init => WriteInv
BY DEF Init, WriteInv

\* Writing changes nothing but the request that is written, and voids what the pass
\* in progress had to say of it.
LEMMA WrittenKeeps ==
    ASSUME TypeOK, WriteInv, NEW r \in Requests, NEW obj, Written(r, obj),
           \A q \in Requests \ {r} : age'[q] = age[q],
           obj # None => /\ obj.phase = "Expired" => /\ obj.expiresAfter # None
                                                      /\ obj.expiresAfter <= age'[r]
    PROVE  WriteInv'
<1>1. /\ server'[r] = obj
      /\ \A q \in Requests \ {r} : server'[q] = server[q]
  BY DEF Written, TypeOK
<1>2. pass' # None => /\ pass # None /\ r \notin pass'.valid
                      /\ pass'.valid \subseteq pass.valid /\ pass'.age = pass.age
                      /\ pass'.window = pass.window /\ pass'.writes = pass.writes
  <2> SUFFICES ASSUME pass # None
               PROVE  /\ r \notin pass'.valid /\ pass'.valid \subseteq pass.valid
                      /\ pass'.age = pass.age /\ pass'.window = pass.window
                      /\ pass'.writes = pass.writes
    BY DEF Written
  <2> QED BY PassType DEF Written, Pass
<1>3. pass # None => pass.valid \subseteq Requests
  BY PassType
<1> QED BY <1>1, <1>2, <1>3 DEF WriteInv, Late

\* A unit later the verdict to be written is still that of the moment the pass began; of
\* a request as old as is counted, every such moment has the same verdict.
LEMMA TickKeepsWrites == ASSUME TypeOK, WriteInv, Tick PROVE WriteInv'
<1>1. /\ server' = server
      /\ age' = [r \in Requests |-> IF cache[r] = None /\ server[r] = None THEN 0
                                    ELSE IF age[r] < AgeBound THEN age[r] + 1 ELSE AgeBound]
      /\ pass' = IF pass = None THEN None ELSE [pass EXCEPT !.age = @ + 1, !.left = @ - 1]
      /\ pass # None => pass.age < MaxPass
  BY DEF Tick
<1>2. ASSUME NEW r \in Requests, server[r] # None
      PROVE  /\ age[r] \in Nat /\ age'[r] \in Nat /\ age[r] <= AgeBound
             /\ age'[r] = IF age[r] < AgeBound THEN age[r] + 1 ELSE age[r]
             /\ server[r] \in Object /\ server[r].duration \in Nat
             /\ server[r].duration + MaxPass + MinGap <= AgeBound
             /\ \A x \in Durations : x \in Nat /\ x + MaxPass + MinGap <= AgeBound
             /\ server[r].expiresAfter \in Durations \union {None}
  <2>1. /\ age[r] \in Nat /\ age[r] <= AgeBound
        /\ server[r] \in Object /\ server[r].duration \in Durations
    BY <1>2, RequestType
  <2>2. \A x \in Durations : x \in Nat /\ x + MaxPass + MinGap <= AgeBound
    BY AgeAssumption, DurationAssumption
  <2>3. server[r].expiresAfter \in Durations \union {None}
    BY <2>1 DEF Object
  <2>4. age'[r] = IF age[r] < AgeBound THEN age[r] + 1 ELSE age[r]
    BY <1>1, <1>2, <2>1, AgeAssumption
  <2> QED BY <2>1, <2>2, <2>3, <2>4
<1>3. ASSUME NEW r \in Requests, server[r] # None PROVE Late(r, age[r])'
  <2>1. Late(r, age[r])
    BY <1>3 DEF WriteInv
  <2> QED BY <1>1, <1>2, <1>3, <2>1, NeverAssumption DEF Late
<1>4. ASSUME pass # None, NEW r \in pass.valid
      PROVE  /\ server[r] # None /\ age'[r] - pass'.age >= 0
             /\ Late(r, age[r] - pass.age)'
             /\ \E n \in Caps : pass'.writes[r] = Judged(server[r], pass'.window,
                      Classify(server[r].duration, n, age'[r] - pass'.age))
  <2>1. /\ r \in Requests /\ server[r] # None /\ age[r] - pass.age >= 0
        /\ Late(r, age[r] - pass.age)
    BY <1>4, PassType DEF WriteInv
  <2>2. /\ pass.age \in Nat /\ pass.age + 1 <= MaxPass /\ pass'.age = pass.age + 1
        /\ pass'.window = pass.window /\ pass'.writes = pass.writes
    <3>1. pass.age \in Nat /\ pass.age < MaxPass /\ pass \in Pass
      BY <1>1, <1>4, PassType, BoundAssumption
    <3>2. pass' = [pass EXCEPT !.age = @ + 1, !.left = @ - 1]
      BY <1>1, <1>4
    <3>3. /\ pass'.age = pass.age + 1
          /\ pass'.window = pass.window /\ pass'.writes = pass.writes
      BY <3>1, <3>2 DEF Pass
    <3> QED BY <3>1, <3>3, BoundAssumption
  <2>3. PICK n \in Caps : pass.writes[r] = Judged(server[r], pass.window,
                               Classify(server[r].duration, n, age[r] - pass.age))
    BY <1>4 DEF WriteInv
  <2> DEFINE t == age[r] - pass.age
             u == age'[r] - pass'.age
  <2>4. /\ t \in Nat /\ u \in Nat
        /\ \/ u = t
           \/ \A x \in Durations : x <= u /\ x <= t
    BY <1>2, <2>1, <2>2, AgeAssumption, GapAssumption, BoundAssumption
  <2>5. Late(r, age[r] - pass.age)'
    <3>1. server[r].phase = "Expired" =>
             /\ server[r].expiresAfter # None /\ server[r].expiresAfter <= t
             /\ server[r].expiresAfter \in Durations
      BY <1>2, <2>1 DEF Late
    <3>2. server[r].phase = "Expired" => server[r].expiresAfter <= u
      BY <2>4, <3>1
    <3> QED BY <1>1, <3>1, <3>2 DEF Late
  <2>6. Classify(server[r].duration, n, u) = Classify(server[r].duration, n, t)
    <3>1. /\ server[r].duration \in Nat /\ server[r].duration \in Durations /\ n \in Nat
      BY <2>1, RequestType, DurationAssumption
    <3> QED BY <2>4, <3>1 DEF Classify
  <2> QED BY <2>1, <2>2, <2>3, <2>4, <2>5, <2>6
<1>5. pass' # None => /\ pass # None /\ pass'.valid = pass.valid
  <2> SUFFICES ASSUME pass # None PROVE pass'.valid = pass.valid
    BY <1>1
  <2> QED BY <1>1, PassType DEF Pass
<1> QED BY <1>1, <1>3, <1>4, <1>5 DEF WriteInv

\* Every step keeps what the pass is about to write true of the request.
LEMMA NextWriteInv == TypeOK /\ VerdictInv /\ WriteInv /\ [Next]_vars => WriteInv'
<1> SUFFICES ASSUME TypeOK, VerdictInv, WriteInv, [Next]_vars PROVE WriteInv'
  OBVIOUS
<1>1. ASSUME NEW w \in Windows, BeginPass(w) PROVE WriteInv'
  <2>1. /\ pass' = Begun(w) /\ UNCHANGED <<server, age, cache, current, cap>>
    BY <1>1, BeginPassBegins DEF BeginPass
  <2>2. /\ pass'.window = w /\ pass'.age = 0
        /\ pass'.valid = {r \in Differing(w) : current[r]}
        /\ \A r \in Differing(w) : r \in Requests /\ pass'.writes[r] = Judged(cache[r], w, Verdict(w, r))
    BY <2>1 DEF Begun, Differing, Listed
  <2>3. ASSUME NEW r \in pass'.valid
        PROVE  /\ server[r] # None /\ age[r] - 0 = age[r] /\ age[r] >= 0 /\ Late(r, age[r])
               /\ \E n \in Caps : pass'.writes[r] =
                     Judged(server[r], w, Classify(server[r].duration, n, age[r]))
    <3>1. r \in Requests /\ r \in Differing(w) /\ cache[r] # None /\ cache[r] = server[r]
      BY <2>2, <2>3 DEF Differing, Listed, VerdictInv
    <3>2. age[r] \in Nat /\ cap[w] \in Caps
      BY <3>1, RequestType DEF TypeOK
    <3>3. pass'.writes[r] = Judged(server[r], w, Classify(server[r].duration, cap[w], age[r]))
      BY <2>2, <3>1 DEF Verdict
    <3> QED BY <3>1, <3>2, <3>3 DEF WriteInv
  <2> QED BY <2>1, <2>2, <2>3 DEF WriteInv, Late
<1>2. ASSUME NEW r \in Requests, Record(r) PROVE WriteInv'
  <2>1. /\ pass # None /\ pass'.window = pass.window /\ pass'.age = pass.age
        /\ pass'.valid = pass.valid \ {r} /\ pass.valid \subseteq Requests
        /\ \A q \in Requests \ {r} : pass'.writes[q] = pass.writes[q]
        /\ UNCHANGED <<age, cap>>
    BY <1>2, PassType DEF Record, Pass
  <2>2. \A q \in Requests \ {r} : server'[q] = server[q]
    BY <1>2 DEF Record, TypeOK
  <2>3. server'[r] # None => Late(r, age[r])'
    <3>1. CASE r \in pass.valid
      <4>1. server'[r] = pass.writes[r]
        BY <1>2, <3>1 DEF Record, TypeOK
      <4>2. PICK n \in Caps : pass.writes[r] = Judged(server[r], pass.window,
                                   Classify(server[r].duration, n, age[r] - pass.age))
        BY <2>1, <3>1 DEF WriteInv
      <4>3. /\ age[r] - pass.age \in Nat /\ pass.age \in Nat /\ age[r] \in Nat
            /\ server[r] \in Object /\ server[r].duration \in Nat /\ n \in Nat
        BY <1>2, <2>1, <3>1, PassType, RequestType, BoundAssumption, DurationAssumption
        DEF WriteInv, Record
      <4>4. server'[r].phase = "Expired" =>
               server'[r].expiresAfter = server[r].duration
        BY <4>1, <4>2, <4>3 DEF Judged, Object
      <4>5. server'[r].phase = "Expired" => server[r].duration <= age[r]
        <5>1. server'[r].phase = Classify(server[r].duration, n, age[r] - pass.age)
          BY <4>1, <4>2, <4>3 DEF Judged, Object
        <5> QED BY <4>3, <5>1 DEF Classify
      <4> QED BY <2>1, <4>3, <4>4, <4>5, NeverAssumption DEF Late
    <3>2. CASE r \notin pass.valid
      BY <1>2, <2>1, <3>2 DEF Record, WriteInv, Late
    <3> QED BY <3>1, <3>2
  <2> QED BY <2>1, <2>2, <2>3 DEF WriteInv, Late
<1>3. ASSUME pass' = None, UNCHANGED <<server, age>> PROVE WriteInv'
  BY <1>3 DEF WriteInv, Late
<1>4. CASE Restart
  <2>1. pass' = pass /\ server' = server /\ pass = None
    BY <1>4 DEF Restart, VerdictInv
  <2>2. \A r \in Requests : server[r] # None => age'[r] = age[r]
    BY <1>4 DEF Restart
  <2> QED BY <2>1, <2>2 DEF WriteInv, Late
<1>5. ASSUME NEW r \in Requests, Deliver(r) PROVE WriteInv'
  <2>1. pass' = pass /\ server' = server
    BY <1>5 DEF Deliver
  <2>2. \A q \in Requests : server[q] # None => age'[q] = age[q]
    BY <1>5 DEF Deliver, TypeOK
  <2>3. pass # None => pass.valid \subseteq Requests
    BY PassType
  <2> QED BY <2>1, <2>2, <2>3 DEF WriteInv, Late
<1>6. CASE Tick
  BY <1>6, TickKeepsWrites
<1>7. ASSUME NEW r \in Requests, Create(r) PROVE WriteInv'
  <2>1. PICK n \in Durations :
          Written(r, [duration |-> n, phase |-> "", window |-> None, expiresAfter |-> None])
    BY <1>7 DEF Create
  <2>2. \A q \in Requests \ {r} : age'[q] = age[q]
    BY <1>7 DEF Create, TypeOK
  <2> QED BY <2>1, <2>2, WrittenKeeps
<1>8. ASSUME NEW r \in Requests, Delete(r) PROVE WriteInv'
  <2>1. \A q \in Requests \ {r} : age'[q] = age[q]
    BY <1>8 DEF Delete
  <2> QED BY <1>8, <2>1, WrittenKeeps DEF Delete
<1>9. ASSUME NEW r \in Requests, EditDuration(r) PROVE WriteInv'
  <2>1. PICK n \in Durations : Written(r, [server[r] EXCEPT !.duration = n])
    BY <1>9 DEF EditDuration
  <2>2. /\ [server[r] EXCEPT !.duration = n].phase = server[r].phase
        /\ [server[r] EXCEPT !.duration = n].expiresAfter = server[r].expiresAfter
        /\ server[r] # None /\ age' = age
    BY <1>9, RequestType DEF EditDuration, Object
  <2> QED BY <2>1, <2>2, WrittenKeeps DEF WriteInv, Late
<1>10. ASSUME NEW w \in Windows, EditCap(w) PROVE WriteInv'
  <2>1. UNCHANGED <<server, age>>
    BY <1>10 DEF EditCap
  <2>2. pass' # None => /\ pass # None /\ pass'.valid = pass.valid /\ pass'.age = pass.age
                        /\ pass'.window = pass.window /\ pass'.writes = pass.writes
                        /\ pass.valid \subseteq Requests
    <3> SUFFICES ASSUME pass # None
                 PROVE  /\ pass'.valid = pass.valid /\ pass'.age = pass.age
                        /\ pass'.window = pass.window /\ pass'.writes = pass.writes
                        /\ pass.valid \subseteq Requests
      BY <1>10 DEF EditCap
    <3> QED BY <1>10, PassType DEF EditCap, Pass
  <2> QED BY <2>1, <2>2 DEF WriteInv, Late
<1>11. ASSUME UNCHANGED <<server, age, pass>> PROVE WriteInv'
  BY <1>11 DEF WriteInv, Late
<1> QED
  BY <1>1, <1>2, <1>3, <1>4, <1>5, <1>6, <1>7, <1>8, <1>9, <1>10, <1>11
  DEF Next, System, Environment, RecordMissing, EndInError, FailPass, FinishPass, Crash,
      Boundary, vars

\* The invariant of the writes.
LEMMA WritesAreTrue == Spec => []WriteInv
<1> QED BY InitTypeOK, NextTypeOK, InitVerdictInv, NextVerdictInv, InitWriteInv, NextWriteInv,
           PTL DEF Spec

\* What whoever asked for r sees of it.
Seen(r) == IF server[r] = None THEN None
           ELSE [duration |-> server[r].duration, phase |-> server[r].phase,
                 expiresAfter |-> server[r].expiresAfter, age |-> age[r]]
AllSeen == [r \in Requests |-> Seen(r)]

\* A request that is there is seen.
LEMMA SeenType ==
    ASSUME TypeOK, NEW r \in Requests
    PROVE  /\ Seen(r) = None <=> server[r] = None
           /\ server[r] # None => /\ Seen(r).duration = server[r].duration
                                  /\ Seen(r).phase = server[r].phase
                                  /\ Seen(r).expiresAfter = server[r].expiresAfter
                                  /\ Seen(r).age = age[r]
           /\ AllSeen[r] = Seen(r)
<1>1. ASSUME server[r] # None PROVE Seen(r) \in Promise!Lease
  <2>1. server[r] \in Object /\ age[r] \in 0 .. AgeBound
    BY <1>1 DEF TypeOK
  <2> QED BY <1>1, <2>1 DEF Seen, Object, Promise!Lease, Verdicts, Promise!Verdicts
<1> QED BY <1>1, NoLeaseAssumption DEF Seen, AllSeen

\* A write that the API server accepts is a ruling that Leases allows.
LEMMA RecordRules ==
    ASSUME TypeOK, WriteInv, NEW r \in Requests, Record(r), r \in pass.valid
    PROVE  Promise!Rule(r)
<1>1. /\ pass # None /\ server' = [server EXCEPT ![r] = pass.writes[r]]
      /\ server[r] # None /\ age' = age
  BY DEF Record
<1>2. PICK n \in Caps : pass.writes[r] = Judged(server[r], pass.window,
                             Classify(server[r].duration, n, age[r] - pass.age))
  BY <1>1 DEF WriteInv
<1> DEFINE t == age[r] - pass.age
           v == Classify(server[r].duration, n, t)
<1>3. /\ t \in Nat /\ t <= age[r] /\ age[r] <= t + MaxPass /\ age[r] \in Nat
      /\ server[r] \in Object /\ server[r].duration \in Nat /\ n \in Nat
      /\ Late(r, t)
  <2>1. /\ pass.age \in Nat /\ pass.age <= MaxPass /\ age[r] \in Nat
        /\ server[r] \in Object /\ server[r].duration \in Nat /\ n \in Nat
    BY <1>1, PassType, RequestType, BoundAssumption, DurationAssumption
  <2>2. t >= 0 /\ Late(r, t)
    BY <1>1 DEF WriteInv
  <2> QED BY <2>1, <2>2, BoundAssumption
<1>4. v \in Verdicts /\ (v = "Active" => t < server[r].duration)
  BY <1>3, VerdictTurnsOnce
<1>5. Seen(r) # None
  BY <1>1, SeenType
<1>6. v \in Promise!Rulings(Seen(r))
  <2>1. t \in Promise!Moments(Seen(r))
    BY <1>1, <1>3, SeenType DEF Promise!Moments
  <2>2. Seen(r).phase = "Expired" /\ v = "Active" => Seen(r).expiresAfter < Seen(r).duration
    <3> SUFFICES ASSUME server[r].phase = "Expired", v = "Active"
                 PROVE  server[r].expiresAfter < server[r].duration
      BY <1>1, SeenType
    <3>1. server[r].expiresAfter \in Durations /\ server[r].expiresAfter <= t
      BY <1>3 DEF Late, Object
    <3>2. server[r].expiresAfter \in Nat
      BY <3>1, DurationAssumption
    <3> QED BY <1>3, <1>4, <3>1, <3>2
  <2>3. v = Promise!Classify(Seen(r).duration, n, t)
    BY <1>1, SeenType DEF Classify, Promise!Classify
  <2> HIDE DEF t, v
  <2> QED BY <2>1, <2>2, <2>3 DEF Promise!Rulings
<1>7. Seen(r)' = Promise!Ruled(Seen(r), v)
  <2>1. server'[r] = Judged(server[r], pass.window, v)
    BY <1>1, <1>2 DEF TypeOK
  <2>2. server'[r] \in Object
    BY <1>1, <1>3, <1>4, <2>1, PassType, JudgedType
  <2>3. server'[r] # None
    BY <2>2, NoneAssumption
  <2>4. /\ server'[r].duration = server[r].duration /\ server'[r].phase = v
        /\ server'[r].expiresAfter = IF v = "Rejected" THEN server[r].expiresAfter
                                     ELSE server[r].duration
    BY <1>3, <2>1 DEF Judged, Object
  <2> HIDE DEF v
  <2>5. Seen(r)' = [duration |-> server[r].duration, phase |-> v,
                    expiresAfter |-> IF v = "Rejected" THEN server[r].expiresAfter
                                     ELSE server[r].duration,
                    age |-> age[r]]
    BY <1>1, <2>3, <2>4 DEF Seen
  <2> QED BY <1>1, <2>5, SeenType DEF Promise!Ruled
<1>8. \A q \in Requests \ {r} : Seen(q)' = Seen(q)
  BY <1>1 DEF Seen, TypeOK
<1>9. AllSeen' = [AllSeen EXCEPT ![r] = Promise!Ruled(Seen(r), v)]
  <2> HIDE DEF v
  <2> QED BY <1>7, <1>8 DEF AllSeen
<1>10. AllSeen[r] = Seen(r)
  BY DEF AllSeen
<1> HIDE DEF v
<1>11. /\ AllSeen[r] # None
       /\ \E x \in Promise!Rulings(AllSeen[r]) :
             AllSeen' = [AllSeen EXCEPT ![r] = Promise!Ruled(@, x)]
  BY <1>5, <1>6, <1>9, <1>10
<1> QED BY <1>11 DEF Promise!Rule, AllSeen, Seen

\* A request that somebody changes, and the others, as they are seen.
LEMMA WrittenIsSeen ==
    ASSUME TypeOK, NEW r \in Requests, NEW obj, Written(r, obj),
           \A q \in Requests \ {r} : age'[q] = age[q]
    PROVE  /\ server'[r] = obj
           /\ AllSeen' = [AllSeen EXCEPT ![r] = Seen(r)']
<1>1. server'[r] = obj /\ \A q \in Requests \ {r} : server'[q] = server[q]
  BY DEF Written, TypeOK
<1>2. \A q \in Requests \ {r} : Seen(q)' = Seen(q)
  BY <1>1 DEF Seen
<1> QED BY <1>1, <1>2 DEF AllSeen

\* A unit that passes does so for whoever sees.
LEMMA TickAges == ASSUME TypeOK, Tick PROVE Promise!Age
<1>1. /\ server' = server
      /\ \A r \in Requests : server[r] # None =>
            age'[r] = IF age[r] < AgeBound THEN age[r] + 1 ELSE AgeBound
  BY DEF Tick
<1>2. ASSUME NEW r \in Requests PROVE Seen(r)' = Promise!Older(Seen(r))
  <2>1. CASE server[r] = None
    BY <1>1, <2>1 DEF Seen, Promise!Older
  <2>2. CASE server[r] # None
    <3>1. Seen(r) # None /\ Seen(r).age = age[r] /\ age[r] \in Nat /\ age[r] <= AgeBound
      BY <2>2, SeenType, RequestType
    <3>2. CASE age[r] = AgeBound
      BY <1>1, <2>2, <3>1, <3>2 DEF Seen, Promise!Older
    <3>3. CASE age[r] # AgeBound
      <4>1. age'[r] = age[r] + 1
        BY <1>1, <2>2, <3>1, <3>3, AgeAssumption
      <4> QED BY <1>1, <2>2, <3>1, <3>3, <4>1 DEF Seen, Promise!Older
    <3> QED BY <3>2, <3>3
  <2> QED BY <2>1, <2>2
<1>3. AllSeen' = [r \in Requests |-> Promise!Older(AllSeen[r])]
  BY <1>2 DEF AllSeen
<1> QED BY <1>3 DEF AllSeen, Seen, Promise!Age

\* Every step is one of Leases, or nothing is seen of it.
LEMMA StepsKeepTheLease ==
    ASSUME TypeOK, WriteInv, VerdictInv, [Next]_vars
    PROVE  Promise!Next \/ AllSeen' = AllSeen
<1>1. ASSUME UNCHANGED <<server, age>> PROVE AllSeen' = AllSeen
  BY <1>1 DEF AllSeen, Seen
<1>2. ASSUME server' = server, \A r \in Requests : server[r] # None => age'[r] = age[r]
      PROVE  AllSeen' = AllSeen
  BY <1>2 DEF AllSeen, Seen
<1>3. ASSUME NEW r \in Requests, Record(r) PROVE Promise!Next \/ AllSeen' = AllSeen
  <2>1. CASE r \in pass.valid
    BY <1>3, <2>1, RecordRules DEF Promise!Next
  <2>2. CASE r \notin pass.valid
    BY <1>1, <1>3, <2>2 DEF Record
  <2> QED BY <2>1, <2>2
<1>4. ASSUME NEW r \in Requests, Create(r) PROVE Promise!Next
  <2>1. PICK n \in Durations :
          Written(r, [duration |-> n, phase |-> "", window |-> None, expiresAfter |-> None])
    BY <1>4 DEF Create
  <2>2. /\ server[r] = None /\ age'[r] = 0 /\ \A q \in Requests \ {r} : age'[q] = age[q]
    BY <1>4 DEF Create, TypeOK
  <2>3. [duration |-> n, phase |-> "", window |-> None, expiresAfter |-> None] \in Object
    BY DEF Object
  <2>4. Seen(r)' = Promise!Asked(n)
    <3>1. server'[r] = [duration |-> n, phase |-> "", window |-> None, expiresAfter |-> None]
      BY <2>1, <2>2, WrittenIsSeen
    <3>2. server'[r] # None
      BY <2>3, <3>1, NoneAssumption
    <3>3. Seen(r)' = [duration |-> server'[r].duration, phase |-> server'[r].phase,
                      expiresAfter |-> server'[r].expiresAfter, age |-> 0]
      BY <2>2, <3>2 DEF Seen
    <3>4. /\ server'[r].duration = n /\ server'[r].phase = ""
          /\ server'[r].expiresAfter = None
      <4> DEFINE new == [duration |-> n, phase |-> "", window |-> None, expiresAfter |-> None]
      <4>1. new.duration = n /\ new.phase = "" /\ new.expiresAfter = None
        OBVIOUS
      <4> HIDE DEF new
      <4> QED BY <3>1, <4>1 DEF new
    <3> QED BY <3>3, <3>4 DEF Promise!Asked
  <2>5. AllSeen[r] = None /\ \E x \in Durations :
           AllSeen' = [AllSeen EXCEPT ![r] = Promise!Asked(x)]
    BY <2>1, <2>2, <2>4, WrittenIsSeen, SeenType
  <2>6. Promise!Create(r)
    BY <2>5 DEF AllSeen, Seen, Promise!Create
  <2> QED BY <2>6 DEF Promise!Next
<1>5. ASSUME NEW r \in Requests, Delete(r) PROVE Promise!Next
  <2>1. server[r] # None /\ Written(r, None) /\ age' = age
    BY <1>5 DEF Delete
  <2>2. Seen(r)' = None /\ AllSeen' = [AllSeen EXCEPT ![r] = Seen(r)']
    BY <2>1, WrittenIsSeen DEF Seen
  <2>3. AllSeen[r] # None /\ AllSeen' = [AllSeen EXCEPT ![r] = None]
    BY <2>1, <2>2, SeenType
  <2>4. Promise!Delete(r)
    BY <2>3 DEF AllSeen, Seen, Promise!Delete
  <2> QED BY <2>4 DEF Promise!Next
<1>6. ASSUME NEW r \in Requests, EditDuration(r) PROVE Promise!Next
  <2>1. PICK n \in Durations : Written(r, [server[r] EXCEPT !.duration = n])
    BY <1>6 DEF EditDuration
  <2>2. server[r] # None /\ server[r] \in Object /\ age' = age
    BY <1>6, RequestType DEF EditDuration
  <2>3. /\ [server[r] EXCEPT !.duration = n] \in Object
        /\ [server[r] EXCEPT !.duration = n].duration = n
        /\ [server[r] EXCEPT !.duration = n].phase = server[r].phase
        /\ [server[r] EXCEPT !.duration = n].expiresAfter = server[r].expiresAfter
    BY <2>2 DEF Object
  <2>4. Seen(r)' = [Seen(r) EXCEPT !.duration = n]
    <3>1. server'[r] = [server[r] EXCEPT !.duration = n]
      BY <2>1, <2>2, WrittenIsSeen
    <3>2. server'[r] # None
      BY <2>3, <3>1, NoneAssumption
    <3>3. Seen(r)' = [duration |-> n, phase |-> server[r].phase,
                      expiresAfter |-> server[r].expiresAfter, age |-> age[r]]
      BY <2>2, <2>3, <3>1, <3>2 DEF Seen
    <3>4. Seen(r) = [duration |-> server[r].duration, phase |-> server[r].phase,
                     expiresAfter |-> server[r].expiresAfter, age |-> age[r]]
      BY <2>2 DEF Seen
    <3> QED BY <3>3, <3>4
  <2>5. AllSeen[r] # None /\ \E x \in Durations :
           AllSeen' = [AllSeen EXCEPT ![r].duration = x]
    BY <2>1, <2>2, <2>4, WrittenIsSeen, SeenType
  <2>6. Promise!Edit(r)
    BY <2>5 DEF AllSeen, Seen, Promise!Edit
  <2> QED BY <2>6 DEF Promise!Next
<1>7. CASE Tick
  BY <1>7, TickAges DEF Promise!Next
<1>8. CASE Restart
  BY <1>2, <1>8 DEF Restart
<1>9. ASSUME NEW r \in Requests, Deliver(r) PROVE AllSeen' = AllSeen
  <2>1. server' = server /\ \A q \in Requests : server[q] # None => age'[q] = age[q]
    BY <1>9 DEF Deliver, TypeOK
  <2> QED BY <1>2, <2>1
<1> QED
  BY <1>1, <1>3, <1>4, <1>5, <1>6, <1>7, <1>8, <1>9
  DEF Next, System, Environment, BeginPass, RecordMissing, EndInError, FailPass,
      FinishPass, Crash, EditCap, Boundary, vars

\* The controller keeps what whoever asked may rely on: every verdict is on the request
\* as it is, none undoes an edit or a deletion, and an exception that has ended begins
\* again only when somebody has lengthened it.
THEOREM RequestsAreLeases == Spec => KeepsLease
<1>1. Init => Promise!Init
  BY DEF Init, Promise!Init
<1>2. TypeOK /\ WriteInv /\ VerdictInv /\ [Next]_vars => [Promise!Next]_AllSeen
  BY StepsKeepTheLease
<1>3. TypeOK /\ WriteInv /\ VerdictInv /\ [Next]_vars =>
        [Promise!Next]_([r \in Requests |->
                    IF server[r] = None THEN None
                    ELSE [duration |-> server[r].duration, phase |-> server[r].phase,
                          expiresAfter |-> server[r].expiresAfter, age |-> age[r]]])
  BY <1>2 DEF AllSeen, Seen
<1> QED
  BY <1>1, <1>3, TypeCorrect, VerdictsHold, WritesAreTrue, PTL
  DEF Spec, KeepsLease, Promise!Spec

-----------------------------------------------------------------------------
(* Every write says something new.                                          *)

\* A write that may land is a verdict in the name of the window of its pass.
LEMMA WriteSigned ==
    ASSUME TypeOK, WriteInv, pass # None, NEW r \in pass.valid
    PROVE  /\ r \in Requests /\ server[r] \in Object /\ pass.window \in Windows
           /\ pass.writes[r] \in Object
           /\ pass.writes[r].phase \in Verdicts /\ pass.writes[r].window = pass.window
<1>1. /\ r \in Requests /\ server[r] # None /\ server[r] \in Object
      /\ pass.window \in Windows /\ pass.age \in Nat
  BY PassType, RequestType, BoundAssumption DEF WriteInv
<1>2. PICK n \in Caps : pass.writes[r] = Judged(server[r], pass.window,
                             Classify(server[r].duration, n, age[r] - pass.age))
  BY <1>1 DEF WriteInv
<1>3. Classify(server[r].duration, n, age[r] - pass.age) \in Verdicts
  BY DEF Classify, Verdicts
<1>4. pass.writes[r] \in Object
  BY <1>1, <1>2, <1>3, JudgedType
<1> QED BY <1>1, <1>2, <1>3, <1>4 DEF Judged, Object

LEMMA InitNewsInv == Init => NewsInv
BY DEF Init, NewsInv

\* Somebody else's version keeps the verdict with its name, and is no longer written over.
LEMMA OthersKeepNews ==
    ASSUME TypeOK, NewsInv, NEW r \in Requests, NEW obj, Written(r, obj),
           obj # None => (obj.phase = "" <=> obj.window = None)
    PROVE  NewsInv'
<1>1. server'[r] = obj /\ \A q \in Requests \ {r} : server'[q] = server[q]
  BY DEF Written, TypeOK
<1>2. pass' # None => /\ pass # None /\ pass'.valid = pass.valid \ {r}
                      /\ pass'.window = pass.window /\ pass'.writes = pass.writes
                      /\ pass.valid \subseteq Requests
  <2> SUFFICES ASSUME pass # None
               PROVE  /\ pass'.valid = pass.valid \ {r} /\ pass'.window = pass.window
                      /\ pass'.writes = pass.writes /\ pass.valid \subseteq Requests
    BY DEF Written
  <2> QED BY PassType DEF Written, Pass
<1> QED BY <1>1, <1>2 DEF NewsInv, Differs

LEMMA NextNewsInv == TypeOK /\ VerdictInv /\ WriteInv /\ NewsInv /\ [Next]_vars => NewsInv'
<1> SUFFICES ASSUME TypeOK, VerdictInv, WriteInv, NewsInv, [Next]_vars PROVE NewsInv'
  OBVIOUS
<1>1. ASSUME NEW w \in Windows, BeginPass(w) PROVE NewsInv'
  <2>1. pass' = Begun(w) /\ server' = server
    BY <1>1, BeginPassBegins DEF BeginPass
  <2>2. /\ pass'.window = w
        /\ pass'.valid = {r \in Differing(w) : current[r]}
        /\ \A r \in Differing(w) : /\ r \in Requests
                                   /\ pass'.writes[r] = Judged(cache[r], w, Verdict(w, r))
    BY <2>1 DEF Begun, Differing, Listed
  <2>3. ASSUME NEW r \in pass'.valid
        PROVE  pass'.writes[r] # None /\ Differs(server[r], w, pass'.writes[r].phase)
    <3>1. /\ r \in Requests /\ r \in Differing(w) /\ r \in Listed
          /\ cache[r] # None /\ cache[r] = server[r]
      BY <2>2, <2>3 DEF Differing, Listed, VerdictInv
    <3>2. Verdict(w, r) \in Verdicts /\ cache[r] \in Object
      BY <3>1, LeftsRange, RequestType
    <3>3. Judged(cache[r], w, Verdict(w, r)) \in Object
      BY <3>2, JudgedType
    <3>4. Judged(cache[r], w, Verdict(w, r)).phase = Verdict(w, r)
      BY <3>2 DEF Judged, Object
    <3> QED BY <2>2, <3>1, <3>3, <3>4, NoneAssumption DEF Differing
  <2> QED BY <2>1, <2>2, <2>3 DEF NewsInv, Differs
<1>2. ASSUME NEW r \in Requests, Record(r) PROVE NewsInv'
  <2>1. /\ pass # None /\ pass'.window = pass.window
        /\ pass'.valid = pass.valid \ {r} /\ pass.valid \subseteq Requests
        /\ \A q \in Requests \ {r} : pass'.writes[q] = pass.writes[q]
    BY <1>2, PassType DEF Record, Pass
  <2>2. \A q \in Requests \ {r} : server'[q] = server[q]
    BY <1>2 DEF Record, TypeOK
  <2>3. server'[r].phase = "" <=> server'[r].window = None
    <3>1. CASE r \in pass.valid
      <4>1. server'[r] = pass.writes[r]
        BY <1>2, <3>1 DEF Record, TypeOK
      <4>2. pass.writes[r].phase # "" /\ pass.writes[r].window # None
        BY <2>1, <3>1, WriteSigned, WindowsAssumption DEF Verdicts
      <4> QED BY <4>1, <4>2
    <3>2. CASE r \notin pass.valid
      BY <1>2, <3>2 DEF Record, NewsInv
    <3> QED BY <3>1, <3>2
  <2> QED BY <2>1, <2>2, <2>3 DEF NewsInv, Differs
<1>3. ASSUME UNCHANGED server,
             pass' # None => /\ pass # None /\ pass'.valid = pass.valid
                             /\ pass'.window = pass.window /\ pass'.writes = pass.writes
      PROVE  NewsInv'
  BY <1>3 DEF NewsInv, Differs
<1>4. CASE Tick \/ \E w \in Windows : EditCap(w)
  <2>1. CASE pass = None
    BY <1>3, <1>4, <2>1 DEF Tick, EditCap
  <2>2. CASE pass # None
    BY <1>3, <1>4, <2>2, PassType DEF Tick, EditCap, Pass
  <2> QED BY <2>1, <2>2
<1>5. ASSUME NEW r \in Requests, Create(r) \/ Delete(r) \/ EditDuration(r) PROVE NewsInv'
  <2>1. CASE Create(r)
    BY <2>1, OthersKeepNews DEF Create
  <2>2. CASE Delete(r)
    BY <2>2, OthersKeepNews DEF Delete
  <2>3. CASE EditDuration(r)
    <3>1. PICK n \in Durations : Written(r, [server[r] EXCEPT !.duration = n])
      BY <2>3 DEF EditDuration
    <3>2. /\ [server[r] EXCEPT !.duration = n].phase = server[r].phase
          /\ [server[r] EXCEPT !.duration = n].window = server[r].window
          /\ server[r] # None
      BY <2>3, RequestType DEF EditDuration, Object
    <3> QED BY <3>1, <3>2, OthersKeepNews DEF NewsInv
  <2> QED BY <1>5, <2>1, <2>2, <2>3
<1> QED
  BY <1>1, <1>2, <1>3, <1>4, <1>5
  DEF Next, System, Environment, RecordMissing, EndInError, FailPass, FinishPass, Crash,
      Restart, Deliver, Boundary, vars

\* In a namespace with one window no status is written to say the same again: with
\* RequestsAreLeases, which lets nothing that has ended begin again by itself, this is why
\* the writes end.
THEOREM EveryWriteIsNews ==
    ASSUME NEW only, Windows = {only}
    PROVE  Spec => SaysSomethingNew
<1> DEFINE New == \A r \in Requests : Record(r) /\ r \in pass.valid
                                      => server'[r].phase # server[r].phase
<1>1. ASSUME TypeOK, WriteInv, NewsInv, NEW r \in Requests, Record(r), r \in pass.valid
      PROVE  server'[r].phase # server[r].phase
  <2>1. server'[r] = pass.writes[r] /\ pass # None /\ server[r] # None
    BY <1>1 DEF Record, TypeOK
  <2>2. pass.window = only /\ pass.writes[r].phase # "" /\ server[r].window \in {only, None}
    BY <1>1, <2>1, WriteSigned DEF Verdicts, Object
  <2>3. Differs(server[r], pass.window, pass.writes[r].phase)
    BY <1>1, <2>1 DEF NewsInv
  <2> QED BY <1>1, <2>1, <2>2, <2>3 DEF NewsInv, Differs
<1>2. TypeOK /\ WriteInv /\ NewsInv => New
  BY <1>1
<1> QED BY <1>2, InitTypeOK, NextTypeOK, InitVerdictInv, NextVerdictInv, InitWriteInv,
           NextWriteInv, InitNewsInv, NextNewsInv, PTL DEF Spec, SaysSomethingNew
=============================================================================
