------------------------- MODULE WholePassesProofs -------------------------
(* Theorems about what WorkloadScaling achieves in a whole pass and keeps   *)
(* through a whole night, for every value of its constants.                *)
EXTENDS WorkloadScalingProofs

-----------------------------------------------------------------------------
(* What a step does to the pass, and a turn of its loop to its workload.    *)

\* What the pass wants the workload to be.
Wish(d) ==
    IF HPASkips(d, pass.spec, pass.hpaOwned) THEN pass.base[d]
    ELSE Desired(pass.base[d], pass.window, pass.spec, pass.asleep)

\* Whether it counts the workload as skipped, and as held down.
PassesBy(d) == \/ HPASkips(d, pass.spec, pass.hpaOwned)
               \/ StandsDown(pass.base[d], pass.spec)
CountsIn(d) == /\ ~HPASkips(d, pass.spec, pass.hpaOwned)
               /\ Counted(pass.base[d], pass.spec, pass.asleep)

\* The pass goes on, with what it has read.
GoesOn(todo) ==
    /\ pass # None /\ pass' # None
    /\ pass'.window = pass.window /\ pass'.spec = pass.spec
    /\ pass'.asleep = pass.asleep /\ pass'.hpaOwned = pass.hpaOwned
    /\ pass'.base = pass.base /\ pass'.todo = todo

\* A turn of the loop ticks its workload off and touches no other; what it does to its
\* own follows from the copy, the record and whether the patch lands.
LEMMA Turn ==
    ASSUME TypeOK, NEW d \in Deployments, NEW landed \in BOOLEAN,
           ReconcileDeployment(d, landed)
    PROVE  /\ d \in pass.todo /\ GoesOn(pass.todo \ {d})
           /\ pass.base[d] \in Object /\ server[d] \in Object /\ Wish(d) \in Object
           /\ pass'.fresh = pass.fresh /\ pass'.phase = pass.phase
           /\ pass'.skipped = IF PassesBy(d) THEN pass.skipped \union {d} ELSE pass.skipped
           /\ pass'.affected = IF CountsIn(d) THEN pass.affected \union {d} ELSE pass.affected
           /\ UNCHANGED <<cache, spec, scheduled, woken, hpaTargets, status>>
           /\ \A e \in Deployments : e # d => /\ server'[e] = server[e]
                                              /\ feed'[e] = feed[e] /\ held'[e] = held[e]
           /\ ~landed => server' = server /\ feed' = feed /\ held' = held
           /\ landed =>
                /\ server'[d] = Patched(server[d], pass.base[d], Wish(d))
                /\ feed'[d] = IF server'[d] = server[d] THEN feed[d]
                              ELSE Append(feed[d], server'[d])
                /\ held'[d] = IF server'[d].replicas = server[d].replicas THEN held[d]
                              ELSE pass.asleep /\ Wish(d).replicas # Original(pass.base[d])
<1> DEFINE base == pass.base[d]
           new  == Patched(server[d], base, Wish(d))
<1>1. pass # None /\ d \in pass.todo /\ pass \in Pass /\ base \in Object /\ server[d] \in Object
  BY PassParts DEF ReconcileDeployment, TypeOK
<1>2. Wish(d) \in Object
  BY <1>1, PassParts, DesiredType DEF Wish
<1> DEFINE skp == IF PassesBy(d) THEN pass.skipped \union {d} ELSE pass.skipped
           aff == IF CountsIn(d) THEN pass.affected \union {d} ELSE pass.affected
<1>3. /\ GoesOn(pass.todo \ {d})
      /\ pass'.fresh = pass.fresh /\ pass'.phase = pass.phase
      /\ pass'.skipped = skp /\ pass'.affected = aff
  <2>1. pass' = [pass EXCEPT !.todo = @ \ {d}, !.affected = aff, !.skipped = skp]
    BY <1>1 DEF ReconcileDeployment, PassesBy, CountsIn
  <2>2. skp \in SUBSET Deployments /\ aff \in SUBSET Deployments
    BY <1>1 DEF Pass
  <2> HIDE DEF skp, aff
  <2>3. pass' \in Pass
    BY <1>1, <2>1, <2>2 DEF Pass
  <2> QED BY <1>1, <2>1, <2>3, NoPassAssumption DEF Pass, GoesOn
<1>4. UNCHANGED <<cache, spec, scheduled, woken, hpaTargets, status>>
  BY DEF ReconcileDeployment
<1>5. CASE landed
  <2>1. Store(d, new) /\ held' = [held EXCEPT ![d] =
                                   IF new.replicas = server[d].replicas THEN @
                                   ELSE pass.asleep /\ Wish(d).replicas # Original(base)]
    BY <1>5 DEF ReconcileDeployment, Wish
  <2> HIDE DEF new
  <2>2. /\ server'[d] = new
        /\ \A e \in Deployments : e # d => server'[e] = server[e] /\ feed'[e] = feed[e]
        /\ feed'[d] = IF new = server[d] THEN feed[d] ELSE Append(feed[d], new)
    BY <2>1 DEF Store, TypeOK
  <2>3. /\ held'[d] = IF new.replicas = server[d].replicas THEN held[d]
                      ELSE pass.asleep /\ Wish(d).replicas # Original(base)
        /\ \A e \in Deployments : e # d => held'[e] = held[e]
    BY <2>1 DEF TypeOK
  <2> QED BY <1>1, <1>2, <1>3, <1>4, <1>5, <2>2, <2>3 DEF new
<1>6. CASE ~landed
  <2>1. server' = server /\ feed' = feed /\ held' = held
    BY <1>6 DEF ReconcileDeployment
  <2> QED BY <1>1, <1>2, <1>3, <1>4, <1>6, <2>1
<1> QED BY <1>5, <1>6

\* After any step there is no pass, the same one, or one that has just begun.
LEMMA PassAfter ==
    ASSUME TypeOK, [Next]_vars
    PROVE  \/ pass' = None
           \/ \E todo \in SUBSET pass.todo : GoesOn(todo)
           \/ \E w \in Windows : BeginPass(w)
<1>1. ASSUME NEW d \in Deployments, NEW landed \in BOOLEAN, ReconcileDeployment(d, landed)
      PROVE  \E todo \in SUBSET pass.todo : GoesOn(todo)
  BY <1>1, Turn
<1>2. ASSUME pass' = pass
      PROVE  pass' = None \/ \E todo \in SUBSET pass.todo : GoesOn(todo)
  BY <1>2 DEF GoesOn
<1>3. ASSUME NEW w \in Windows, EditSpec(w)
      PROVE  pass' = None \/ \E todo \in SUBSET pass.todo : GoesOn(todo)
  <2>1. CASE pass' = pass
    BY <1>2, <2>1
  <2>2. CASE pass # None /\ pass' = [pass EXCEPT !.fresh = FALSE]
    <3>1. pass \in Pass
      BY <2>2, PassParts
    <3>2. GoesOn(pass.todo) \/ pass' = None
      BY <2>2, <3>1 DEF GoesOn, Pass
    <3> QED BY <3>2
  <2> QED BY <1>3, <2>1, <2>2 DEF EditSpec
<1> QED
  BY <1>1, <1>2, <1>3 DEF Next, System, LostPatch, Environment, SkipSuspended, Complete,
     AbortPass, Deliver, Crash, Scale, Strip, Boundary, WakeFlip, ToggleHPA, vars

-----------------------------------------------------------------------------
(* A night.                                                                 *)

\* No step but the person's own, or one of the schedule's, touches a workload that a
\* person holds.
LEMMA HeldIsLeftAlone ==
    ASSUME TypeOK, RecordInv, [Next]_vars, "strip" \notin Disturbances,
           NEW d \in Deployments, PersonHolds(d), \A n \in Sizes : ~Scale(d, n)
    PROVE  server'[d] = server[d]
<1>1. ASSUME NEW e \in Deployments, NEW landed \in BOOLEAN, ReconcileDeployment(e, landed)
      PROVE  server'[d] = server[d]
  <2>1. CASE e # d \/ ~landed
    BY <1>1, <2>1, Turn
  <2>2. CASE e = d /\ landed
    <3>1. /\ d \in pass.todo /\ pass # None
          /\ pass.base[d] \in Object /\ server[d] \in Object /\ Wish(d) \in Object
          /\ server'[d] = Patched(server[d], pass.base[d], Wish(d))
      BY <1>1, <2>2, Turn DEF GoesOn
    <3>2. Agrees(pass.base[d], server[d], held[d]) /\ Sound(server[d], held[d])
      BY <3>1 DEF RecordInv
    <3>3. /\ pass.asleep /\ pass.spec.respectManualScale
          /\ pass.base[d].applied = pass.spec.minReplicas
          /\ pass.base[d].saved # None /\ pass.base[d].applied # None
      BY <3>1, <3>2 DEF PersonHolds, NightFor, ManuallyChanged, Agrees, Sound
    <3>4. StandsDown(pass.base[d], pass.spec) \/ InPlaceAsleep(pass.base[d], pass.spec)
      BY <3>3 DEF StandsDown, ManuallyChanged, InPlaceAsleep
    <3>5. Wish(d) = pass.base[d]
      BY <3>3, <3>4 DEF Wish, Desired, WhileAsleep
    <3>6. held[d] \in BOOLEAN
      BY DEF TypeOK
    <3> QED BY <3>1, <3>2, <3>5, <3>6, PatchFromCurrentRecord
  <2> QED BY <2>1, <2>2
<1>2. ASSUME server' = server PROVE server'[d] = server[d]
  BY <1>2
<1>3. ASSUME NEW e \in Deployments, NEW n \in Sizes, Scale(e, n) PROVE server'[d] = server[d]
  <2>1. e # d
    BY <1>3
  <2> QED BY <1>3, <2>1 DEF Scale, Store, TypeOK
<1> QED
  BY <1>1, <1>2, <1>3 DEF Next, System, LostPatch, Environment, SkipSuspended,
     BeginPass, Complete, AbortPass, Deliver, Crash, Strip, EditSpec, Boundary,
     WakeFlip, ToggleHPA, vars

\* As long as windows and schedule stay, a night stays a night.
LEMMA NightGoesOn ==
    ASSUME TypeOK, [Next]_vars, UNCHANGED <<spec, scheduled, woken>>,
           NEW d \in Deployments, NEW floor, NightFor(d, floor)
    PROVE  NightFor(d, floor)'
<1>1. \A w \in Windows : Asleep(w)' = Asleep(w)
  BY DEF Asleep
<1>2. \A w \in Managers(d)' : Asleep(w)' /\ spec'[w].respectManualScale
                              /\ spec'[w].minReplicas = floor
  BY <1>1 DEF NightFor, Managers
<1>3. ASSUME pass' # None, d \in pass'.todo
      PROVE  /\ pass'.asleep /\ pass'.spec.respectManualScale
             /\ pass'.spec.minReplicas = floor
  <2>1. ASSUME NEW todo \in SUBSET pass.todo, GoesOn(todo)
        PROVE  /\ pass'.asleep /\ pass'.spec.respectManualScale
               /\ pass'.spec.minReplicas = floor
    BY <1>3, <2>1 DEF GoesOn, NightFor
  <2>2. ASSUME NEW w \in Windows, BeginPass(w)
        PROVE  /\ pass'.asleep /\ pass'.spec.respectManualScale
               /\ pass'.spec.minReplicas = floor
    <3>1. /\ pass'.todo = spec[w].selects /\ pass'.asleep = Asleep(w)
          /\ pass'.spec = spec[w] /\ spec[w] # None /\ ~spec[w].suspend
      BY <2>2 DEF BeginPass
    <3>2. w \in Managers(d)
      BY <1>3, <3>1 DEF Managers
    <3> QED BY <3>1, <3>2 DEF NightFor
  <2> QED BY <1>3, <2>1, <2>2, PassAfter
<1> QED BY <1>2, <1>3 DEF NightFor

\* A person's count, and the record of the size to restore, stand until a boundary, a
\* WakeRequest, an edit or the person ends the night: no number of passes, crashes, lost
\* patches or stale copies does.
THEOREM TheNightIsThePersons ==
    ASSUME PromptCache, "strip" \notin Disturbances
    PROVE  Spec => HoldsTillMorning
<1>1. ASSUME TypeOK, RecordInv, [Next]_vars, UNCHANGED <<spec, scheduled, woken>>,
             NEW d \in Deployments, PersonHolds(d), \A n \in Sizes : ~Scale(d, n)
      PROVE  server'[d] = server[d] /\ PersonHolds(d)'
  <2>1. server'[d] = server[d]
    BY <1>1, HeldIsLeftAlone
  <2>2. NightFor(d, server[d].applied)'
    <3>1. NightFor(d, server[d].applied)
      BY <1>1 DEF PersonHolds
    <3> DEFINE floor == server[d].applied
    <3> HIDE DEF floor
    <3>2. floor = server[d].applied /\ NightFor(d, floor)
      BY <3>1 DEF floor
    <3> QED BY <1>1, <2>1, <3>2, NightGoesOn
  <2> QED BY <1>1, <2>1, <2>2 DEF PersonHolds, ManuallyChanged
<1>2. TypeOK /\ RecordInv /\ [Next]_vars =>
        [\A d \in Deployments :
          /\ PersonHolds(d)
          /\ UNCHANGED <<spec, scheduled, woken>>
          /\ \A n \in Sizes : ~Scale(d, n)
          => server'[d] = server[d] /\ PersonHolds(d)']_vars
  BY <1>1
<1> QED
  BY <1>2, TypeCorrect, RecordIsKept, PTL DEF Spec, HoldsTillMorning

-----------------------------------------------------------------------------
(* A pass.                                                                  *)

\* The last version on its way to the cache is the server's; with none on its way the
\* cache holds it.
FeedInv == \A d \in Deployments :
    server[d] = IF feed[d] = <<>> THEN cache[d] ELSE feed[d][Len(feed[d])]

\* Storing a version appends it to the feed, unless it is the one before.
LEMMA StoreFeedInv ==
    ASSUME TypeOK, FeedInv, NEW d \in Deployments, NEW obj \in Object, cache' = cache,
           server'[d] = obj, feed'[d] = IF obj = server[d] THEN feed[d] ELSE Append(feed[d], obj),
           \A e \in Deployments : e # d => server'[e] = server[e] /\ feed'[e] = feed[e]
    PROVE  FeedInv'
<1>1. feed[d] \in Seq(Object)
  BY DEF TypeOK
<1>2. CASE obj = server[d]
  BY <1>2 DEF FeedInv
<1>3. CASE obj # server[d]
  <2>1. feed'[d] # <<>> /\ feed'[d][Len(feed'[d])] = obj
    BY <1>1, <1>3
  <2> QED BY <2>1 DEF FeedInv
<1> QED BY <1>2, <1>3

\* The last element stays the last, until it is the only one.
LEMMA LastOfTail ==
    ASSUME NEW S, NEW q \in Seq(S), q # <<>>
    PROVE  IF Tail(q) = <<>> THEN q[Len(q)] = Head(q)
           ELSE q[Len(q)] = Tail(q)[Len(Tail(q))]
<1>1. Len(q) \in Nat \ {0}
  OBVIOUS
<1>2. /\ Head(q) = q[1] /\ Len(Tail(q)) = Len(q) - 1
      /\ \A i \in 1 .. Len(Tail(q)) : Tail(q)[i] = q[i + 1]
  BY <1>1
<1>3. Tail(q) \in Seq(S)
  BY <1>1
<1>4. Tail(q) = <<>> <=> Len(Tail(q)) = 0
  <2>1. \A t \in Seq(S) : t = <<>> <=> Len(t) = 0
    OBVIOUS
  <2> QED BY <1>3, <2>1
<1>5. CASE Len(q) = 1
  BY <1>2, <1>4, <1>5
<1>6. CASE Len(q) # 1
  <2>1. Len(Tail(q)) \in 1 .. Len(Tail(q)) /\ Len(Tail(q)) + 1 = Len(q)
    BY <1>1, <1>2, <1>6
  <2> QED BY <1>2, <1>4, <2>1
<1> QED BY <1>5, <1>6

\* A delivered version is the head of the feed.
LEMMA DeliverFeedInv ==
    ASSUME TypeOK, FeedInv, NEW d \in Deployments, Deliver(d)
    PROVE  FeedInv'
<1>1. /\ feed[d] \in Seq(Object) /\ feed[d] # <<>>
      /\ feed'[d] = Tail(feed[d]) /\ cache'[d] = Head(feed[d]) /\ server' = server
      /\ \A e \in Deployments : e # d => feed'[e] = feed[e] /\ cache'[e] = cache[e]
  BY DEF Deliver, TypeOK
<1>2. server[d] = feed[d][Len(feed[d])]
  BY <1>1 DEF FeedInv
<1>3. server'[d] = IF feed'[d] = <<>> THEN cache'[d] ELSE feed'[d][Len(feed'[d])]
  BY <1>1, <1>2, LastOfTail
<1> QED BY <1>1, <1>3 DEF FeedInv

\* Every step keeps the feed complete.
LEMMA NextFeedInv == TypeOK /\ FeedInv /\ [Next]_vars => FeedInv'
<1> SUFFICES ASSUME TypeOK, FeedInv, [Next]_vars PROVE FeedInv'
  OBVIOUS
<1>1. ASSUME NEW d \in Deployments, NEW landed \in BOOLEAN, ReconcileDeployment(d, landed)
      PROVE  FeedInv'
  <2>1. CASE landed
    <3>1. Patched(server[d], pass.base[d], Wish(d)) \in Object
      BY <1>1, Turn, PatchedFields
    <3> QED BY <1>1, <2>1, <3>1, Turn, StoreFeedInv
  <2>2. CASE ~landed
    <3>1. server' = server /\ feed' = feed
      BY <1>1, <2>2, Turn
    <3>2. cache' = cache
      BY <1>1, Turn
    <3> QED BY <3>1, <3>2 DEF FeedInv
  <2> QED BY <2>1, <2>2
<1>2. ASSUME NEW d \in Deployments, NEW obj \in Object, Store(d, obj), cache' = cache
      PROVE  FeedInv'
  <2>1. /\ server'[d] = obj
        /\ feed'[d] = IF obj = server[d] THEN feed[d] ELSE Append(feed[d], obj)
        /\ \A e \in Deployments : e # d => server'[e] = server[e] /\ feed'[e] = feed[e]
    BY <1>2 DEF Store, TypeOK
  <2> QED BY <1>2, <2>1, StoreFeedInv
<1>3. ASSUME NEW d \in Deployments, NEW n \in Sizes, Scale(d, n) PROVE FeedInv'
  <2>1. server[d] \in Object /\ n \in Nat
    BY SizesAssumption DEF TypeOK
  <2>2. [server[d] EXCEPT !.replicas = n] \in Object
    BY <2>1 DEF Object
  <2> QED BY <1>2, <1>3, <2>2 DEF Scale
<1>4. ASSUME NEW d \in Deployments, Strip(d) PROVE FeedInv'
  <2>1. server[d] \in Object
    BY DEF TypeOK
  <2>2. [server[d] EXCEPT !.saved = None] \in Object
    BY <2>1 DEF Object
  <2> QED BY <1>2, <1>4, <2>2 DEF Strip
<1>5. ASSUME NEW d \in Deployments, Deliver(d) PROVE FeedInv'
  BY <1>5, DeliverFeedInv
<1>6. ASSUME Crash PROVE FeedInv'
  BY <1>6 DEF Crash, FeedInv
<1>7. ASSUME UNCHANGED <<server, cache, feed>> PROVE FeedInv'
  BY <1>7 DEF FeedInv
<1> QED
  BY <1>1, <1>3, <1>4, <1>5, <1>6, <1>7 DEF Next, System, LostPatch, Environment,
     SkipSuspended, BeginPass, Complete, AbortPass, EditSpec, Boundary, WakeFlip,
     ToggleHPA, vars

\* The cache, once it has caught up, holds what the server holds.
LEMMA FeedIsComplete == Spec => []FeedInv
<1>1. Init => FeedInv
  BY DEF Init, FeedInv
<1> QED BY <1>1, NextFeedInv, TypeCorrect, PTL DEF Spec

\* What stays as it is stays in place.
LEMMA InPlaceStays ==
    ASSUME NEW d \in Deployments, NEW w \in Windows, InPlace(d, w),
           server'[d] = server[d], held'[d] = held[d],
           UNCHANGED <<spec, scheduled, woken, hpaTargets>>
    PROVE  InPlace(d, w)'
BY DEF InPlace, HPASkips, Asleep, StandsDown, ManuallyChanged, InPlaceAsleep

\* A patch of an object from a copy of itself makes it what was wanted.
LEMMA PatchOfSelf ==
    ASSUME NEW obj \in Object, NEW want \in Object
    PROVE  Patched(obj, obj, want) = want
<1>1. \A a \in Object, b \in Object :
         (/\ a.replicas = b.replicas /\ a.saved = b.saved
          /\ a.applied = b.applied /\ a.owner = b.owner) => a = b
  BY DEF Object
<1> QED BY <1>1, PatchedFields

\* A turn that works from what is so puts its workload in place, and finds nothing to do
\* with one that is.
LEMMA TurnPutsInPlace ==
    ASSUME TypeOK, RecordInv, NEW d \in Deployments,
           NEW landed \in BOOLEAN, landed, ReconcileDeployment(d, landed),
           NEW w \in Windows, pass.window = w, pass.spec = spec[w],
           pass.asleep = Asleep(w), pass.hpaOwned = hpaTargets, pass.base[d] = server[d]
    PROVE  /\ InPlace(d, w)'
           /\ InPlace(d, w) => server'[d] = server[d] /\ feed'[d] = feed[d] /\ held'[d] = held[d]
<1> DEFINE s == spec[w]
<1>1. /\ server[d] \in Object /\ Wish(d) \in Object /\ server'[d] = Wish(d)
      /\ feed'[d] = IF server'[d] = server[d] THEN feed[d] ELSE Append(feed[d], server'[d])
      /\ held'[d] = IF server'[d].replicas = server[d].replicas THEN held[d]
                    ELSE pass.asleep /\ Wish(d).replicas # Original(server[d])
      /\ UNCHANGED <<spec, scheduled, woken, hpaTargets>>
  <2>1. /\ server[d] \in Object /\ Wish(d) \in Object
        /\ UNCHANGED <<spec, scheduled, woken, hpaTargets>>
    BY Turn
  <2>2. /\ server'[d] = Patched(server[d], pass.base[d], Wish(d))
        /\ feed'[d] = IF server'[d] = server[d] THEN feed[d] ELSE Append(feed[d], server'[d])
        /\ held'[d] = IF server'[d].replicas = server[d].replicas THEN held[d]
                      ELSE pass.asleep /\ Wish(d).replicas # Original(pass.base[d])
    BY Turn
  <2>3. server'[d] = Wish(d)
    BY <2>1, <2>2, PatchOfSelf
  <2> QED BY <2>1, <2>2, <2>3
<1>2. Sound(server[d], held[d]) /\ None \notin Nat /\ s \in SpecType
  <2>1. pass.spec \in SpecType
    BY PassParts DEF ReconcileDeployment
  <2> QED BY <2>1, NoneAssumption DEF RecordInv
<1>3. CASE HPASkips(d, s, hpaTargets)
  <2>1. server'[d] = server[d]
    BY <1>1, <1>3 DEF Wish
  <2>2. InPlace(d, w)
    BY <1>3 DEF InPlace
  <2> QED BY <1>1, <2>1, <2>2, InPlaceStays
<1>4. CASE ~HPASkips(d, s, hpaTargets) /\ Asleep(w)
  <2>1. server'[d] = WhileAsleep(server[d], w, s)
    BY <1>1, <1>4 DEF Wish, Desired
  <2>2. CASE StandsDown(server[d], s) \/ InPlaceAsleep(server[d], s)
    <3>1. server'[d] = server[d]
      BY <2>1, <2>2 DEF WhileAsleep
    <3>2. InPlace(d, w)
      BY <1>4, <2>2 DEF InPlace
    <3> QED BY <1>1, <3>1, <3>2, InPlaceStays
  <2>3. CASE ~(StandsDown(server[d], s) \/ InPlaceAsleep(server[d], s))
    <3>1. server'[d] = ScaleTo(server[d], w, s.minReplicas, Original(server[d]))
      BY <2>1, <2>3 DEF WhileAsleep
    <3>2. server'[d].replicas = s.minReplicas /\ server'[d].saved # None
      BY <1>1, <1>2, <3>1 DEF ScaleTo, Original, Object
    <3>3. ~InPlace(d, w)
      BY <1>4, <2>3 DEF InPlace
    <3>4. Asleep(w)' /\ spec' = spec
      BY <1>1, <1>4 DEF Asleep
    <3> QED BY <3>2, <3>3, <3>4 DEF InPlace, InPlaceAsleep
  <2> QED BY <2>2, <2>3
<1>5. CASE ~HPASkips(d, s, hpaTargets) /\ ~Asleep(w)
  <2>1. server'[d] = WhileAwake(server[d], s)
    BY <1>1, <1>5 DEF Wish, Desired
  <2>2. server'[d].saved = None
    BY <1>1, <2>1 DEF WhileAwake, ClearAnnotations, RestoreTo, Untouched
  <2>3. ~held'[d]
    <3>1. CASE server'[d].replicas # server[d].replicas
      BY <1>1, <1>5, <3>1
    <3>2. CASE server'[d].replicas = server[d].replicas
      <4>1. \/ StandsDown(server[d], s) \/ server[d].saved = None
            \/ server[d].saved = server[d].replicas
        BY <2>1, <3>2 DEF WhileAwake, RestoreTo, Untouched
      <4>2. ~held[d]
        BY <1>2, <4>1 DEF StandsDown, ManuallyChanged, Sound
      <4> QED BY <1>1, <3>2, <4>2
    <3> QED BY <3>1, <3>2
  <2>4. ~Asleep(w)' /\ spec' = spec
    BY <1>1, <1>5 DEF Asleep
  <2>5. InPlace(d, w) => server'[d] = server[d]
    BY <1>5, <2>1 DEF InPlace, WhileAwake, ClearAnnotations
  <2> QED BY <1>1, <2>2, <2>3, <2>4, <2>5 DEF InPlace
<1> QED BY <1>3, <1>4, <1>5

\* A pass that is on course stays so, turn by turn, until it is through.
LEMMA CourseIsKept ==
    ASSUME TypeOK, RecordInv, FeedInv, System, NEW w \in Windows
    PROVE  /\ pass = None /\ CaughtUp /\ BeginPass(w) => OnCourse(w)'
           /\ pass # None /\ OnCourse(w) =>
                IF pass' # None THEN OnCourse(w)' ELSE \A d \in spec[w].selects : InPlace(d, w)'
<1>1. ASSUME CaughtUp, BeginPass(w) PROVE OnCourse(w)'
  <2>1. /\ pass'.window = w /\ pass'.spec = spec[w] /\ pass'.asleep = Asleep(w)
        /\ pass'.hpaOwned = hpaTargets /\ pass'.base = cache /\ pass'.todo = spec[w].selects
        /\ UNCHANGED <<server, cache, spec, scheduled, woken, hpaTargets>>
    BY <1>1 DEF BeginPass
  <2>2. spec[w].selects \subseteq Deployments
    BY <1>1, SpecsAssumption DEF BeginPass, TypeOK, SpecType
  <2>3. Asleep(w)' = Asleep(w)
    BY <2>1 DEF Asleep
  <2>4. \A d \in Deployments : cache[d] = server[d]
    BY <1>1 DEF CaughtUp, FeedInv
  <2> QED BY <2>1, <2>2, <2>3, <2>4 DEF OnCourse
<1>2. ASSUME pass # None, OnCourse(w)
      PROVE  IF pass' # None THEN OnCourse(w)' ELSE \A d \in spec[w].selects : InPlace(d, w)'
  <2>1. pass.spec = spec[w] /\ spec[w].selects \subseteq Deployments /\ pass.todo \subseteq Deployments
    <3>1. pass.spec \in SpecType /\ pass.todo \subseteq Deployments
      BY <1>2, PassParts
    <3> QED BY <1>2, <3>1 DEF OnCourse, SpecType
  <2>2. ASSUME NEW e \in Deployments, NEW landed \in BOOLEAN, landed, ReconcileDeployment(e, landed)
        PROVE  pass' # None /\ OnCourse(w)'
    <3>1. /\ e \in pass.todo /\ GoesOn(pass.todo \ {e})
          /\ UNCHANGED <<spec, scheduled, woken, hpaTargets>>
          /\ \A d \in Deployments : d # e => server'[d] = server[d] /\ held'[d] = held[d]
      BY <2>2, Turn
    <3>2. InPlace(e, w)'
      BY <1>2, <2>2, <3>1, TurnPutsInPlace DEF OnCourse
    <3>3. ASSUME NEW d \in spec[w].selects \ (pass.todo \ {e}), d # e PROVE InPlace(d, w)'
      BY <1>2, <2>1, <3>1, <3>3, InPlaceStays DEF OnCourse
    <3>4. Asleep(w)' = Asleep(w)
      BY <3>1 DEF Asleep
    <3> QED BY <1>2, <2>1, <3>1, <3>2, <3>3, <3>4 DEF OnCourse, GoesOn
  <2>3. ASSUME NEW e \in Deployments, Deliver(e) PROVE pass' = pass /\ OnCourse(w)'
    <3>1. UNCHANGED <<pass, server, held, spec, scheduled, woken, hpaTargets>>
      BY <2>3 DEF Deliver
    <3>2. \A d \in spec[w].selects \ pass.todo : InPlace(d, w)'
      BY <1>2, <2>1, <3>1, InPlaceStays DEF OnCourse
    <3> QED BY <1>2, <3>1, <3>2 DEF OnCourse, Asleep
  <2>4. ASSUME Complete PROVE pass' = None /\ \A d \in spec[w].selects : InPlace(d, w)'
    <3>1. /\ pass.todo = {} /\ pass' = None
          /\ UNCHANGED <<server, held, spec, scheduled, woken, hpaTargets>>
      BY <2>4 DEF Complete
    <3> QED BY <1>2, <2>1, <3>1, InPlaceStays DEF OnCourse
  <2> QED BY <1>2, <2>2, <2>3, <2>4 DEF System, SkipSuspended, BeginPass
<1> QED BY <1>1, <1>2

\* A pass that finds everything in place passes over and counts, turn by turn, those it
\* should, and reports them.
LEMMA TellingIsKept ==
    ASSUME TypeOK, RecordInv, FeedInv, System, NEW w \in Windows
    PROVE  /\ (/\ pass = None /\ CaughtUp /\ BeginPass(w)
               /\ \A d \in spec[w].selects : InPlace(d, w)) => Telling(w)'
           /\ pass # None /\ Telling(w) => IF pass' # None THEN Telling(w)' ELSE Reported(w)'
<1>1. ASSUME pass = None, CaughtUp, BeginPass(w), \A d \in spec[w].selects : InPlace(d, w)
      PROVE  Telling(w)'
  <2>1. OnCourse(w)'
    BY <1>1, CourseIsKept
  <2>2. /\ pass'.fresh /\ pass'.phase = Phase(w) /\ pass'.skipped = {} /\ pass'.affected = {}
        /\ pass'.todo = spec[w].selects
        /\ UNCHANGED <<server, held, spec, scheduled, woken, hpaTargets>>
    BY <1>1 DEF BeginPass
  <2>3. spec[w].selects \subseteq Deployments
    BY <1>1, SpecsAssumption DEF BeginPass, TypeOK, SpecType
  <2>4. \A d \in spec'[w].selects : InPlace(d, w)'
    BY <1>1, <2>2, <2>3, InPlaceStays
  <2>5. PassedOver(w)' \ pass'.todo = {} /\ HeldDown(w)' \ pass'.todo = {}
    BY <2>2 DEF PassedOver, HeldDown
  <2>6. Phase(w)' = Phase(w)
    BY <2>2 DEF Phase, Asleep
  <2> QED BY <2>1, <2>2, <2>4, <2>5, <2>6 DEF Telling
<1>2. ASSUME pass # None, Telling(w)
      PROVE  IF pass' # None THEN Telling(w)' ELSE Reported(w)'
  <2>1. /\ OnCourse(w) /\ pass.window = w /\ pass.spec = spec[w] /\ pass.asleep = Asleep(w)
        /\ pass.hpaOwned = hpaTargets /\ pass.todo \subseteq spec[w].selects
        /\ \A d \in pass.todo : pass.base[d] = server[d]
        /\ pass.fresh /\ pass.phase = Phase(w) /\ \A d \in spec[w].selects : InPlace(d, w)
        /\ pass.skipped = PassedOver(w) \ pass.todo
        /\ pass.affected = HeldDown(w) \ pass.todo
        /\ spec[w].selects \subseteq Deployments
    <3>1. pass.spec \in SpecType
      BY <1>2, PassParts
    <3> QED BY <1>2, <3>1 DEF OnCourse, Telling, SpecType
  <2>same. ASSUME UNCHANGED <<server, held, spec, scheduled, woken, hpaTargets>>
        PROVE  /\ PassedOver(w)' = PassedOver(w) /\ HeldDown(w)' = HeldDown(w)
               /\ Phase(w)' = Phase(w) /\ \A d \in spec'[w].selects : InPlace(d, w)'
    <3>1. PassedOver(w)' = PassedOver(w) /\ Asleep(w)' = Asleep(w)
      BY <2>same DEF PassedOver, Asleep
    <3>2. \A d \in spec'[w].selects : InPlace(d, w)'
      BY <2>1, <2>same, InPlaceStays
    <3> QED BY <2>same, <3>1, <3>2 DEF HeldDown, Phase
  <2>2. ASSUME NEW e \in Deployments, NEW landed \in BOOLEAN, landed, ReconcileDeployment(e, landed)
        PROVE  pass' # None /\ Telling(w)'
    <3>1. /\ e \in pass.todo /\ GoesOn(pass.todo \ {e}) /\ server[e] \in Object
          /\ pass'.fresh = pass.fresh /\ pass'.phase = pass.phase
          /\ pass'.skipped = IF PassesBy(e) THEN pass.skipped \union {e} ELSE pass.skipped
          /\ pass'.affected = IF CountsIn(e) THEN pass.affected \union {e} ELSE pass.affected
          /\ UNCHANGED <<spec, scheduled, woken, hpaTargets>>
      BY <2>2, Turn
    <3>2. \A d \in Deployments : server'[d] = server[d] /\ held'[d] = held[d]
      <4>1. server'[e] = server[e] /\ held'[e] = held[e]
        BY <2>1, <2>2, <3>1, TurnPutsInPlace
      <4> QED BY <2>2, <4>1, Turn
    <3>3. UNCHANGED <<server, held>>
      BY <3>2, NextTypeOK DEF TypeOK, Next
    <3>4. PassesBy(e) <=> e \in PassedOver(w)
      BY <2>1, <3>1 DEF PassesBy, PassedOver
    <3>5. CountsIn(e) <=> e \in HeldDown(w)
      <4>1. InPlace(e, w)
        BY <2>1, <3>1
      <4> QED BY <2>1, <3>1, <4>1 DEF CountsIn, Counted, HeldDown, PassedOver, InPlace
    <3>6. /\ pass'.skipped = PassedOver(w) \ pass'.todo
          /\ pass'.affected = HeldDown(w) \ pass'.todo
      BY <2>1, <3>1, <3>4, <3>5 DEF GoesOn
    <3>7. pass' # None /\ OnCourse(w)'
      BY <2>1, <3>1, CourseIsKept DEF GoesOn
    <3> QED BY <2>same, <2>1, <3>1, <3>3, <3>6, <3>7 DEF Telling
  <2>3. ASSUME NEW e \in Deployments, Deliver(e) PROVE pass' # None /\ Telling(w)'
    <3>1. UNCHANGED <<pass, server, held, spec, scheduled, woken, hpaTargets>>
      BY <2>3 DEF Deliver
    <3>2. OnCourse(w)'
      BY <1>2, <2>1, <3>1, CourseIsKept
    <3> QED BY <1>2, <2>1, <2>same, <3>1, <3>2 DEF Telling
  <2>4. ASSUME Complete PROVE pass' = None /\ Reported(w)'
    <3>1. /\ pass.todo = {} /\ pass' = None
          /\ status' = [status EXCEPT ![w] = [phase |-> pass.phase, affected |-> pass.affected,
                                             skipped |-> pass.skipped]]
          /\ UNCHANGED <<server, held, spec, scheduled, woken, hpaTargets>>
      BY <2>1, <2>4 DEF Complete
    <3>2. /\ status'[w].phase = Phase(w) /\ status'[w].skipped = PassedOver(w)
          /\ status'[w].affected = HeldDown(w)
      BY <2>1, <3>1 DEF TypeOK
    <3> QED BY <2>same, <3>1, <3>2 DEF Reported
  <2> QED BY <1>2, <2>2, <2>3, <2>4 DEF System, SkipSuspended, BeginPass
<1> QED BY <1>1, <1>2

\* What every window is content with is left alone.
LEMMA RestIsKept ==
    ASSUME TypeOK, RecordInv, FeedInv, System, NEW d \in Deployments, AtRest(d)
    PROVE  server'[d] = server[d] /\ AtRest(d)'
<1>1. UNCHANGED <<spec, scheduled, woken, hpaTargets>>
  <2>1. ASSUME NEW e \in Deployments, NEW landed \in BOOLEAN, ReconcileDeployment(e, landed)
        PROVE  UNCHANGED <<spec, scheduled, woken, hpaTargets>>
    BY <2>1 DEF ReconcileDeployment
  <2> QED BY <2>1 DEF System, SkipSuspended, BeginPass, Complete, Deliver
<1>2. Managers(d)' = Managers(d) /\ \A w \in Windows : Asleep(w)' = Asleep(w)
  BY <1>1 DEF Managers, Asleep
<1>3. \A w \in Managers(d) : w \in Windows
  BY DEF Managers
<1> DEFINE Same == server'[d] = server[d] /\ feed'[d] = feed[d] /\ held'[d] = held[d]
           Works(p) == /\ p.window \in Managers(d) /\ p.spec = spec[p.window]
                       /\ p.asleep = Asleep(p.window) /\ p.hpaOwned = hpaTargets
                       /\ p.base[d] = server[d]
<1>4. ASSUME Same, pass' # None /\ d \in pass'.todo => Works(pass')
      PROVE  server'[d] = server[d] /\ AtRest(d)'
  <2>1. \A w \in Managers(d) : InPlace(d, w)'
    BY <1>1, <1>3, <1>4, InPlaceStays DEF AtRest
  <2> QED BY <1>1, <1>2, <1>3, <1>4, <2>1 DEF AtRest
<1>5. ASSUME NEW e \in Deployments, NEW landed \in BOOLEAN, landed, ReconcileDeployment(e, landed)
      PROVE  server'[d] = server[d] /\ AtRest(d)'
  <2>1. e \in pass.todo /\ pass # None /\ GoesOn(pass.todo \ {e})
    BY <1>5, Turn DEF GoesOn
  <2>2. d \in pass'.todo => Works(pass')
    BY <2>1 DEF AtRest, GoesOn
  <2>3. Same
    <3>1. CASE e # d
      BY <1>5, <3>1, Turn
    <3>2. CASE e = d
      <4>1. /\ pass.window \in Windows /\ InPlace(d, pass.window)
            /\ pass.spec = spec[pass.window] /\ pass.asleep = Asleep(pass.window)
            /\ pass.hpaOwned = hpaTargets /\ pass.base[d] = server[d]
        BY <1>3, <2>1, <3>2 DEF AtRest
      <4> QED BY <1>5, <3>2, <4>1, TurnPutsInPlace
    <3> QED BY <3>1, <3>2
  <2> HIDE DEF Same, Works
  <2> QED BY <1>4, <2>2, <2>3
<1>6. ASSUME NEW w \in Windows, BeginPass(w) PROVE server'[d] = server[d] /\ AtRest(d)'
  <2>1. Same
    BY <1>6 DEF BeginPass
  <2>2. ASSUME d \in pass'.todo PROVE Works(pass')
    <3>1. /\ pass'.window = w /\ pass'.spec = spec[w] /\ pass'.asleep = Asleep(w)
          /\ pass'.hpaOwned = hpaTargets /\ pass'.base = cache /\ pass'.todo = spec[w].selects
          /\ spec[w] # None /\ ~spec[w].suspend
      BY <1>6 DEF BeginPass
    <3>2. w \in Managers(d)
      BY <2>2, <3>1 DEF Managers
    <3>3. cache[d] = server[d]
      BY DEF AtRest, FeedInv
    <3> QED BY <3>1, <3>2, <3>3
  <2> HIDE DEF Same, Works
  <2> QED BY <1>4, <2>1, <2>2
<1>7. ASSUME NEW e \in Deployments, Deliver(e) PROVE server'[d] = server[d] /\ AtRest(d)'
  <2>1. e # d
    BY <1>7 DEF AtRest, Deliver
  <2>2. Same /\ pass' = pass
    BY <1>7, <2>1 DEF Deliver, TypeOK
  <2>3. pass' # None /\ d \in pass'.todo => Works(pass')
    BY <2>2 DEF AtRest
  <2> HIDE DEF Same, Works
  <2> QED BY <1>4, <2>2, <2>3
<1>8. ASSUME Complete \/ \E w \in Windows : SkipSuspended(w)
      PROVE  server'[d] = server[d] /\ AtRest(d)'
  <2>1. Same /\ pass' = None
    BY <1>8 DEF Complete, SkipSuspended
  <2> HIDE DEF Same, Works
  <2> QED BY <1>4, <2>1
<1> QED BY <1>5, <1>6, <1>7, <1>8 DEF System

\* A pass that is not disturbed leaves every workload of its window in place, the next
\* one says so, and what all windows are content with is not touched again: but for the
\* passes taking place, which only fairness gives, this is why the cluster converges.
THEOREM ConvergenceRestsOnPasses ==
    ASSUME PromptCache, "strip" \notin Disturbances
    PROVE  Spec => PassesSettle
<1>1. TypeOK /\ RecordInv /\ FeedInv /\ System => PutsInPlace /\ TellsWhatIsSo /\ StaysInPlace
  BY CourseIsKept, TellingIsKept, RestIsKept DEF PutsInPlace, TellsWhatIsSo, StaysInPlace
<1> QED
  BY <1>1, TypeCorrect, RecordIsKept, FeedIsComplete, PTL DEF PassesSettle
=============================================================================
