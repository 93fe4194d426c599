----------------------- MODULE WorkloadScalingProofs -----------------------
(* Theorems about WorkloadScaling, for every value of its constants.       *)
EXTENDS WorkloadScaling, TLAPS

-----------------------------------------------------------------------------
(* Lemmas about the operators.                                              *)

\* A merge patch leaves each field either as wanted or as it was.
LEMMA PatchedFields ==
    ASSUME NEW obj \in Object, NEW base \in Object, NEW want \in Object
    PROVE  /\ Patched(obj, base, want) \in Object
           /\ Patched(obj, base, want).replicas =
                IF want.replicas # base.replicas THEN want.replicas ELSE obj.replicas
           /\ Patched(obj, base, want).saved =
                IF want.saved # base.saved THEN want.saved ELSE obj.saved
           /\ Patched(obj, base, want).applied =
                IF want.applied # base.applied THEN want.applied ELSE obj.applied
           /\ Patched(obj, base, want).owner =
                IF want.owner # base.owner THEN want.owner ELSE obj.owner
<1>1. DOMAIN obj = {"replicas", "saved", "applied", "owner"}
  BY DEF Object
<1>2. Patched(obj, base, want) =
        [replicas |-> IF want.replicas # base.replicas THEN want.replicas ELSE obj.replicas,
         saved    |-> IF want.saved # base.saved THEN want.saved ELSE obj.saved,
         applied  |-> IF want.applied # base.applied THEN want.applied ELSE obj.applied,
         owner    |-> IF want.owner # base.owner THEN want.owner ELSE obj.owner]
  BY <1>1 DEF Patched
<1> QED
  BY <1>2 DEF Object

\* What a pass wants a Deployment to be is a Deployment.
LEMMA DesiredType ==
    ASSUME NEW obj \in Object, NEW w \in Windows, NEW s \in SpecType,
           NEW asleep \in BOOLEAN
    PROVE  Desired(obj, w, s, asleep) \in Object
<1>1. WhileAsleep(obj, w, s) \in Object
  <2>1. Original(obj) \in Nat
    BY DEF Original, Object
  <2>2. ScaleTo(obj, w, s.minReplicas, Original(obj)) \in Object
    BY <2>1 DEF ScaleTo, Object, SpecType
  <2> QED BY <2>2 DEF WhileAsleep
<1>2. WhileAwake(obj, s) \in Object
  <2>1. ClearAnnotations(obj) \in Object
    BY DEF ClearAnnotations, Untouched, Object
  <2>2. obj.saved # None => RestoreTo(obj, obj.saved) \in Object
    BY DEF RestoreTo, Untouched, Object
  <2> QED BY <2>1, <2>2 DEF WhileAwake
<1> QED BY <1>1, <1>2 DEF Desired

\* A reconcile that is repeated changes nothing: the design's idempotency.
THEOREM DesiredIsIdempotent ==
    ASSUME NEW obj \in Object, NEW w \in Windows, NEW s \in SpecType,
           NEW asleep \in BOOLEAN
    PROVE  LET once == Desired(obj, w, s, asleep)
           IN  Desired(once, w, s, asleep) = once
<1>1. None \notin Nat
  BY NoneAssumption
<1>2. CASE asleep
  BY <1>1, <1>2 DEF Desired, WhileAsleep, InPlaceAsleep, StandsDown, ManuallyChanged, Original, ScaleTo,
                    Object, SpecType
<1>3. CASE ~asleep
  BY <1>1, <1>3 DEF Desired, WhileAwake, StandsDown, ManuallyChanged, ClearAnnotations,
                    RestoreTo, Untouched, Object, SpecType
<1> QED BY <1>2, <1>3
-----------------------------------------------------------------------------
(* Type correctness.                                                        *)

\* The first states are well typed.
LEMMA InitTypeOK == Init => TypeOK
<1> SUFFICES ASSUME Init PROVE TypeOK
  OBVIOUS
<1>1. \A n \in Sizes : Untouched(n) \in Object
  BY SizesAssumption DEF Untouched, Object
<1>2. server \in [Deployments -> Object] /\ cache \in [Deployments -> Object]
  <2>1. {Untouched(n) : n \in Sizes} \subseteq Object
    BY <1>1
  <2> QED BY <2>1 DEF Init
<1>3. /\ feed \in [Deployments -> Seq(Object)]
      /\ own \in [Deployments -> Nat]
      /\ \A d \in Deployments : Len(feed[d]) <= MaxLag /\ own[d] <= Len(feed[d])
  <2>1. <<>> \in Seq(Object) /\ Len(<<>>) = 0
    OBVIOUS
  <2>2. feed \in [Deployments -> Seq(Object)] /\ own \in [Deployments -> Nat]
    BY <2>1 DEF Init
  <2>3. \A d \in Deployments : Len(feed[d]) = 0 /\ own[d] = 0
    BY <2>1 DEF Init
  <2> QED BY <2>2, <2>3, LagAssumption
<1>4. status \in [Windows -> [phase : Phases, affected : SUBSET Deployments,
                             skipped : SUBSET Deployments]]
  BY DEF Init, Phases
<1> QED
  BY <1>2, <1>3, <1>4 DEF Init, TypeOK

\* The copy and the spec a pass works with, and what one turn of its loop stores.
LEMMA PassParts ==
    ASSUME TypeOK, pass # None
    PROVE  /\ pass \in Pass
           /\ pass.window \in Windows
           /\ pass.spec \in SpecType
           /\ pass.asleep \in BOOLEAN
           /\ pass.base \in [Deployments -> Object]
           /\ pass.todo \subseteq Deployments
<1>1. pass \in Pass
  BY DEF TypeOK
<1> QED BY <1>1, SpecsAssumption DEF Pass

\* Storing a version keeps the server and the feeds well typed.
LEMMA StoreType ==
    ASSUME TypeOK, NEW d \in Deployments, NEW obj \in Object, Len(feed[d]) < MaxLag,
           Store(d, obj)
    PROVE  /\ server' \in [Deployments -> Object]
           /\ feed' \in [Deployments -> Seq(Object)]
           /\ \A e \in Deployments : /\ Len(feed'[e]) <= MaxLag
                                     /\ Len(feed[e]) <= Len(feed'[e])
           /\ obj # server[d] => Len(feed'[d]) = Len(feed[d]) + 1
<1> USE LagAssumption
<1>1. server' \in [Deployments -> Object]
  BY DEF Store, TypeOK
<1>2. CASE obj = server[d]
  BY <1>1, <1>2 DEF Store, TypeOK
<1>3. CASE obj # server[d]
  <2>1. feed' = [feed EXCEPT ![d] = Append(@, obj)]
    BY <1>3 DEF Store
  <2>2. /\ Append(feed[d], obj) \in Seq(Object)
        /\ Len(Append(feed[d], obj)) = Len(feed[d]) + 1
    BY DEF TypeOK
  <2>3. feed' \in [Deployments -> Seq(Object)]
    BY <2>1, <2>2 DEF TypeOK
  <2>4. \A e \in Deployments : feed'[e] = IF e = d THEN Append(feed[d], obj) ELSE feed[e]
    BY <2>1 DEF TypeOK
  <2>5. \A e \in Deployments : Len(feed[e]) \in Nat /\ Len(feed[e]) <= MaxLag
    BY DEF TypeOK
  <2> QED
    BY <1>1, <2>2, <2>3, <2>4, <2>5
<1> QED BY <1>2, <1>3

\* One turn of the loop keeps the types, its patch landed or lost.
LEMMA ReconcileTypeOK ==
    ASSUME TypeOK, NEW d \in Deployments, NEW landed \in BOOLEAN,
           ReconcileDeployment(d, landed)
    PROVE  TypeOK'
<1> DEFINE base == pass.base[d]
           skip == HPASkips(d, pass.spec, pass.hpaOwned)
           want == IF skip THEN base ELSE Desired(base, pass.window, pass.spec, pass.asleep)
           new  == Patched(server[d], base, want)
<1>1. pass \in Pass /\ base \in Object /\ server[d] \in Object
  BY PassParts DEF ReconcileDeployment, TypeOK
<1>2. want \in Object
  BY <1>1, PassParts, DesiredType DEF ReconcileDeployment
<1>3. new \in Object
  BY <1>1, <1>2, PatchedFields
<1>4. pass' \in Pass
  <2>1. PICK aff \in SUBSET Deployments, skp \in SUBSET Deployments :
            pass' = [pass EXCEPT !.todo = @ \ {d}, !.affected = aff, !.skipped = skp]
    BY <1>1 DEF ReconcileDeployment, Pass
  <2> QED BY <1>1, <2>1 DEF Pass
<1>5. CASE landed
  <2>1. Store(d, new) /\ Len(feed[d]) < MaxLag
    BY <1>5 DEF ReconcileDeployment
  <2>2. own' = [own EXCEPT ![d] = IF new = server[d] THEN @ ELSE Len(feed[d]) + 1]
    BY <1>5 DEF ReconcileDeployment
  <2>3. /\ own' \in [Deployments -> Nat]
        /\ \A e \in Deployments : own'[e] <= Len(feed'[e])
    <3>1. \A e \in Deployments : /\ Len(feed[e]) \in Nat /\ Len(feed'[e]) \in Nat
                                 /\ own[e] \in Nat /\ own[e] <= Len(feed[e])
      BY <1>3, <2>1, StoreType DEF TypeOK
    <3>2. /\ \A e \in Deployments : Len(feed[e]) <= Len(feed'[e])
          /\ new # server[d] => Len(feed'[d]) = Len(feed[d]) + 1
      BY <1>3, <2>1, StoreType
    <3>3. own' \in [Deployments -> Nat]
      BY <2>2, <3>1 DEF TypeOK
    <3>4. \A e \in Deployments :
             own'[e] = IF e = d /\ new # server[d] THEN Len(feed[d]) + 1 ELSE own[e]
      BY <2>2 DEF TypeOK
    <3> HIDE DEF new
    <3> QED BY <3>1, <3>2, <3>3, <3>4
  <2>4. held' \in [Deployments -> BOOLEAN]
    <3>1. PICK b \in BOOLEAN : held' = [held EXCEPT ![d] = b]
      BY <1>5 DEF ReconcileDeployment, TypeOK
    <3> QED BY <3>1 DEF TypeOK
  <2>5. /\ server' \in [Deployments -> Object]
        /\ feed' \in [Deployments -> Seq(Object)]
        /\ \A e \in Deployments : Len(feed'[e]) <= MaxLag
    BY <1>3, <2>1, StoreType
  <2> QED
    BY <1>4, <2>3, <2>4, <2>5 DEF ReconcileDeployment, TypeOK
<1>6. CASE ~landed
  BY <1>4, <1>6 DEF ReconcileDeployment, TypeOK
<1> QED BY <1>5, <1>6

\* A delivered version keeps the types and the place of the last own write.
LEMMA DeliverTypeOK ==
    ASSUME TypeOK, NEW d \in Deployments, Deliver(d)
    PROVE  TypeOK'
<1>1. /\ feed[d] \in Seq(Object) /\ feed[d] # <<>> /\ own[d] \in Nat
      /\ own[d] <= Len(feed[d]) /\ Len(feed[d]) <= MaxLag
  BY DEF Deliver, TypeOK
<1>2. /\ Head(feed[d]) \in Object /\ Tail(feed[d]) \in Seq(Object)
      /\ Len(Tail(feed[d])) = Len(feed[d]) - 1 /\ Len(feed[d]) \in Nat \ {0}
  BY <1>1
<1>3. /\ cache' \in [Deployments -> Object]
      /\ feed' \in [Deployments -> Seq(Object)]
      /\ own' \in [Deployments -> Nat]
  BY <1>1, <1>2 DEF Deliver, TypeOK
<1>4. \A e \in Deployments :
         /\ feed'[e] = IF e = d THEN Tail(feed[d]) ELSE feed[e]
         /\ own'[e] = IF e = d THEN (IF own[d] = 0 THEN 0 ELSE own[d] - 1) ELSE own[e]
  BY DEF Deliver, TypeOK
<1>5. \A e \in Deployments : Len(feed'[e]) <= MaxLag /\ own'[e] <= Len(feed'[e])
  <2>1. \A e \in Deployments : /\ Len(feed[e]) \in Nat /\ own[e] \in Nat
                               /\ Len(feed[e]) <= MaxLag /\ own[e] <= Len(feed[e])
    BY DEF TypeOK
  <2> SUFFICES ASSUME NEW e \in Deployments
               PROVE  Len(feed'[e]) <= MaxLag /\ own'[e] <= Len(feed'[e])
    OBVIOUS
  <2>2. CASE e # d
    BY <1>4, <2>1, <2>2
  <2>3. CASE e = d
    <3>1. Len(feed'[d]) = Len(feed[d]) - 1 /\ Len(feed[d]) \in Nat \ {0}
      BY <1>2, <1>4
    <3>2. own'[d] = IF own[d] = 0 THEN 0 ELSE own[d] - 1
      BY <1>4
    <3> QED BY <2>1, <2>3, <3>1, <3>2, LagAssumption
  <2> QED BY <2>2, <2>3
<1> QED BY <1>3, <1>5 DEF Deliver, TypeOK

\* A write of somebody else: one field of one Deployment.
LEMMA OutsideWriteTypeOK ==
    ASSUME TypeOK, NEW d \in Deployments, NEW obj \in Object, Len(feed[d]) < MaxLag,
           Store(d, obj), held' = [held EXCEPT ![d] = FALSE],
           UNCHANGED <<cache, own, spec, scheduled, woken, hpaTargets, pass, status>>
    PROVE  TypeOK'
<1>1. /\ server' \in [Deployments -> Object]
      /\ feed' \in [Deployments -> Seq(Object)]
      /\ \A e \in Deployments : /\ Len(feed'[e]) <= MaxLag
                                /\ Len(feed[e]) <= Len(feed'[e])
  BY StoreType
<1>2. \A e \in Deployments : own'[e] <= Len(feed'[e])
  <2>1. \A e \in Deployments : /\ own[e] <= Len(feed[e]) /\ own[e] \in Nat
                               /\ Len(feed[e]) \in Nat /\ Len(feed'[e]) \in Nat
    BY <1>1 DEF TypeOK
  <2> QED BY <1>1, <2>1
<1> QED BY <1>1, <1>2 DEF TypeOK

\* Declaring, editing or deleting a window keeps the types.
LEMMA EditTypeOK ==
    ASSUME TypeOK, NEW w \in Windows, EditSpec(w)
    PROVE  TypeOK'
<1>1. spec' \in [Windows -> Specs \union {None}]
  BY DEF EditSpec, TypeOK
<1>2. status' \in [Windows -> [phase : Phases, affected : SUBSET Deployments,
                              skipped : SUBSET Deployments]]
  <2>1. CASE status' = status
    BY <2>1 DEF TypeOK
  <2>2. CASE status' = [status EXCEPT ![w] = [phase |-> "", affected |-> {}, skipped |-> {}]]
    <3>1. [phase |-> "", affected |-> {}, skipped |-> {}] \in
            [phase : Phases, affected : SUBSET Deployments, skipped : SUBSET Deployments]
      BY DEF Phases
    <3> QED BY <2>2, <3>1 DEF TypeOK
  <2> QED BY <2>1, <2>2 DEF EditSpec
<1>3. pass' \in Pass \union {None}
  BY DEF EditSpec, TypeOK, Pass
<1> QED BY <1>1, <1>2, <1>3 DEF EditSpec, TypeOK

\* Every step keeps the types.
LEMMA NextTypeOK == TypeOK /\ [Next]_vars => TypeOK'
<1> SUFFICES ASSUME TypeOK, [Next]_vars PROVE TypeOK'
  OBVIOUS
<1>1. ASSUME NEW w \in Windows, SkipSuspended(w) PROVE TypeOK'
  BY <1>1 DEF SkipSuspended, TypeOK, Phases
<1>2. ASSUME NEW w \in Windows, BeginPass(w) PROVE TypeOK'
  <2>1. /\ spec[w] \in Specs /\ spec[w].selects \subseteq Deployments
    BY <1>2, SpecsAssumption DEF BeginPass, TypeOK, SpecType
  <2>2. Asleep(w) \in BOOLEAN /\ Phase(w) \in Phases
    BY <1>2 DEF Asleep, Phase, Phases, TypeOK
  <2>3. pass' \in Pass
    BY <1>2, <2>1, <2>2 DEF BeginPass, TypeOK, Pass
  <2> QED BY <1>2, <2>3 DEF BeginPass, TypeOK
<1>3. ASSUME NEW d \in Deployments, ReconcileDeployment(d, TRUE) PROVE TypeOK'
  BY <1>3, ReconcileTypeOK
<1>4. ASSUME NEW d \in Deployments, Deliver(d) PROVE TypeOK'
  BY <1>4, DeliverTypeOK
<1>5. ASSUME Complete PROVE TypeOK'
  BY <1>5 DEF Complete, TypeOK, Pass
<1>6. ASSUME LostPatch PROVE TypeOK'
  BY <1>6, ReconcileTypeOK DEF LostPatch
<1>7. ASSUME AbortPass PROVE TypeOK'
  BY <1>7 DEF AbortPass, TypeOK
<1>8. ASSUME Crash PROVE TypeOK'
  BY <1>8, LagAssumption DEF Crash, TypeOK
<1>9. ASSUME NEW d \in Deployments, NEW n \in Sizes, Scale(d, n) PROVE TypeOK'
  <2>1. [server[d] EXCEPT !.replicas = n] \in Object
    <3>1. server[d] \in Object /\ n \in Nat
      BY SizesAssumption DEF TypeOK
    <3> QED BY <3>1 DEF Object
  <2> QED BY <1>9, <2>1, OutsideWriteTypeOK DEF Scale
<1>10. ASSUME NEW d \in Deployments, Strip(d) PROVE TypeOK'
  <2>1. [server[d] EXCEPT !.saved = None] \in Object
    <3>1. server[d] \in Object
      BY DEF TypeOK
    <3> QED BY <3>1 DEF Object
  <2> QED BY <1>10, <2>1, OutsideWriteTypeOK DEF Strip
<1>11. ASSUME NEW d \in Deployments, ToggleHPA(d) PROVE TypeOK'
  BY <1>11 DEF ToggleHPA, TypeOK
<1>12. ASSUME NEW w \in Windows, EditSpec(w) PROVE TypeOK'
  BY <1>12, EditTypeOK
<1>13. ASSUME NEW w \in Windows, Boundary(w) \/ WakeFlip(w) PROVE TypeOK'
  BY <1>13 DEF Boundary, WakeFlip, TypeOK
<1>14. ASSUME UNCHANGED vars PROVE TypeOK'
  BY <1>14 DEF vars, TypeOK
<1> QED
  BY <1>1, <1>2, <1>3, <1>4, <1>5, <1>6, <1>7, <1>8, <1>9, <1>10, <1>11, <1>12, <1>13,
     <1>14 DEF Next, System, Environment

\* Every reachable state of the controller and the cluster is well typed.
THEOREM TypeCorrect == Spec => []TypeOK
<1> QED BY InitTypeOK, NextTypeOK, PTL DEF Spec

-----------------------------------------------------------------------------
(* The record, when no pass starts behind the controller's own writes.      *)

\* A patch computed from a copy whose record is current writes the wanted record
\* whole, and writes the count only where it was wanted to change.
LEMMA PatchFromCurrentRecord ==
    ASSUME NEW obj \in Object, NEW base \in Object, NEW want \in Object,
           NEW lowered \in BOOLEAN, Agrees(base, obj, lowered)
    PROVE  LET new == Patched(obj, base, want) IN
           /\ new \in Object
           /\ new.saved = want.saved /\ new.applied = want.applied
           /\ new.owner = want.owner
           /\ new.replicas = IF want.replicas # base.replicas THEN want.replicas
                             ELSE obj.replicas
           /\ want = base => new = obj
<1>1. base.saved = obj.saved /\ base.applied = obj.applied /\ base.owner = obj.owner
  BY DEF Agrees
<1>2. /\ Patched(obj, base, want) \in Object
      /\ Patched(obj, base, want).saved = want.saved
      /\ Patched(obj, base, want).applied = want.applied
      /\ Patched(obj, base, want).owner = want.owner
      /\ Patched(obj, base, want).replicas =
           IF want.replicas # base.replicas THEN want.replicas ELSE obj.replicas
  BY <1>1, PatchedFields
<1>3. want = base => Patched(obj, base, want) = obj
  <2>1. \A a \in Object, b \in Object :
           (/\ a.replicas = b.replicas /\ a.saved = b.saved
            /\ a.applied = b.applied /\ a.owner = b.owner) => a = b
    BY DEF Object
  <2> QED BY <1>1, <1>2, <2>1
<1> QED BY <1>2, <1>3

\* What a landed patch does to the count's author.
Lowers(obj, new, want, lowered) ==
    IF new.replicas = obj.replicas THEN lowered
    ELSE want.saved # None /\ want.saved # want.replicas

\* A patch that changes the count lowers the workload exactly if it records another
\* count than the one it writes.
LEMMA LoweredIsRecorded ==
    ASSUME NEW obj \in Object, NEW base \in Object, NEW w \in Windows,
           NEW s \in SpecType, NEW asleep \in BOOLEAN,
           NEW want, want = base \/ want = Desired(base, w, s, asleep),
           Patched(obj, base, want).replicas # obj.replicas
    PROVE  (asleep /\ want.replicas # Original(base))
             <=> (want.saved # None /\ want.saved # want.replicas)
<1>1. None \notin Nat
  BY NoneAssumption
<1>2. want.replicas # base.replicas
  BY DesiredType, PatchedFields
<1>3. CASE asleep
  <2>1. want = ScaleTo(base, w, s.minReplicas, Original(base))
    BY <1>2, <1>3 DEF Desired, WhileAsleep
  <2>2. Original(base) \in Nat
    BY DEF Original, Object
  <2> QED BY <1>1, <1>3, <2>1, <2>2 DEF ScaleTo
<1>4. CASE ~asleep
  <2>1. want = RestoreTo(base, base.saved)
    BY <1>2, <1>4 DEF Desired, WhileAwake, ClearAnnotations, Untouched
  <2> QED BY <1>4, <2>1 DEF RestoreTo, Untouched
<1> QED BY <1>3, <1>4

\* A patch computed from a copy that agrees leaves a whole record, and says
\* rightly whether the count is still a person's.
LEMMA PatchIsSound ==
    ASSUME NEW obj \in Object, NEW base \in Object, NEW w \in Windows,
           NEW s \in SpecType, NEW asleep \in BOOLEAN, NEW lowered \in BOOLEAN,
           Sound(obj, lowered), Agrees(base, obj, lowered),
           NEW want, want = base \/ want = Desired(base, w, s, asleep),
           NEW new, new = Patched(obj, base, want)
    PROVE  Sound(new, Lowers(obj, new, want, lowered))
<1>1. want \in Object
  BY DesiredType
<1>2. /\ new \in Object
      /\ new.saved = want.saved /\ new.applied = want.applied
      /\ new.owner = want.owner
      /\ new.replicas = IF want.replicas # base.replicas THEN want.replicas
                        ELSE obj.replicas
      /\ want = base => new = obj
  BY <1>1, PatchFromCurrentRecord
<1>3. None \notin Nat /\ None \notin Windows /\ Sizes \subseteq Nat
  BY NoneAssumption, SizesAssumption
<1>4. CASE want = base
  BY <1>2, <1>4 DEF Lowers
<1>5. CASE /\ want = ScaleTo(base, w, s.minReplicas, Original(base))
           /\ ~InPlaceAsleep(base, s)
  <2>1. /\ want.replicas = s.minReplicas /\ want.saved = Original(base)
        /\ want.applied = s.minReplicas /\ want.owner = w
    BY <1>5 DEF ScaleTo
  <2>2. s.minReplicas \in Nat
    BY DEF SpecType
  <2>3. Original(base) \in Sizes
    BY DEF Original, Agrees, Sound
  <2>4. CASE new.replicas = obj.replicas
    <3>1. ~lowered
      BY <1>2, <1>5, <2>1, <2>4 DEF Agrees, Sound, InPlaceAsleep
    <3> QED BY <1>2, <1>3, <2>1, <2>2, <2>3, <2>4, <3>1 DEF Lowers, Sound
  <2>5. CASE new.replicas # obj.replicas
    BY <1>2, <1>3, <2>1, <2>2, <2>3, <2>5 DEF Lowers, Sound
  <2> QED BY <2>4, <2>5
<1>6. CASE /\ want = Untouched(base.replicas) /\ base.saved # None
           /\ StandsDown(base, s) \/ base.saved = base.replicas
  <2>1. new.replicas = obj.replicas /\ new.saved = None /\ new.applied = None
        /\ new.owner = None
    BY <1>2, <1>6 DEF Untouched
  <2>2. ~lowered
    BY <1>6 DEF Agrees, Sound, StandsDown, ManuallyChanged
  <2> QED BY <1>3, <2>1, <2>2 DEF Lowers, Sound
<1>7. CASE want = RestoreTo(base, base.saved) /\ base.saved # None /\ base.saved # base.replicas
  <2>1. new.replicas = base.saved /\ new.saved = None /\ new.applied = None
        /\ new.owner = None /\ want.saved = None
    BY <1>2, <1>7 DEF RestoreTo, Untouched
  <2>2. base.saved \in Sizes
    BY <1>7 DEF Agrees, Sound
  <2>3. lowered => new.replicas # obj.replicas
    BY <2>1 DEF Agrees, Sound
  <2> QED BY <1>3, <2>1, <2>2, <2>3 DEF Lowers, Sound
<1>8. \/ want = base
      \/ /\ want = ScaleTo(base, w, s.minReplicas, Original(base))
         /\ ~InPlaceAsleep(base, s)
      \/ /\ want = Untouched(base.replicas) /\ base.saved # None
         /\ StandsDown(base, s) \/ base.saved = base.replicas
      \/ want = RestoreTo(base, base.saved) /\ base.saved # None /\ base.saved # base.replicas
  BY DEF Desired, WhileAsleep, WhileAwake, ClearAnnotations
<1> QED BY <1>4, <1>5, <1>6, <1>7, <1>8

\* A sound object agrees with itself.
LEMMA SoundAgrees ==
    ASSUME NEW obj \in Object, NEW lowered \in BOOLEAN, Sound(obj, lowered)
    PROVE  Agrees(obj, obj, lowered)
BY DEF Sound, Agrees

\* Nothing is recorded at first, and every copy is the server's.
LEMMA InitRecordInv == Init => RecordInv
<1> SUFFICES ASSUME Init, NEW d \in Deployments
             PROVE  /\ Sound(server[d], held[d])
                    /\ own[d] = 0 => Agrees(cache[d], server[d], held[d])
                    /\ \A i \in 1 .. Len(feed[d]) :
                          i >= own[d] => Agrees(feed[d][i], server[d], held[d])
                    /\ pass # None /\ d \in pass.todo
                         => Agrees(pass.base[d], server[d], held[d])
  BY DEF RecordInv
<1>1. PICK n \in Sizes : server[d] = Untouched(n)
  BY DEF Init
<1>2. /\ server[d].replicas \in Sizes /\ server[d].saved = None
      /\ server[d].applied = None /\ server[d].owner = None
      /\ held[d] = FALSE /\ cache[d] = server[d]
  <2>1. held[d] = FALSE /\ cache[d] = server[d]
    BY DEF Init
  <2> QED BY <1>1, <2>1 DEF Untouched
<1>3. Sound(server[d], held[d]) /\ Agrees(cache[d], server[d], held[d])
  BY <1>2 DEF Sound, Agrees
<1>4. Len(feed[d]) = 0 /\ pass = None
  <2>1. feed[d] = <<>>
    BY DEF Init
  <2> QED BY <2>1 DEF Init
<1> QED BY <1>2, <1>3, <1>4

\* The parts of RecordInv that speak of one Deployment.
RecordInvOf(d) ==
    /\ Sound(server[d], held[d])
    /\ own[d] = 0 => Agrees(cache[d], server[d], held[d])
    /\ \A i \in 1 .. Len(feed[d]) :
          i >= own[d] => Agrees(feed[d][i], server[d], held[d])
    /\ pass # None /\ d \in pass.todo => Agrees(pass.base[d], server[d], held[d])

\* RecordInv is the conjunction of its four parts, workload by workload.
LEMMA RecordInvOfAll ==
    /\ RecordInv <=> \A d \in Deployments : RecordInvOf(d)
    /\ RecordInv' <=> \A d \in Deployments : RecordInvOf(d)'
BY DEF RecordInv, RecordInvOf

\* What a step leaves alone, it leaves sound.
LEMMA RecordInvOfOthers ==
    ASSUME TypeOK, NEW e \in Deployments, RecordInvOf(e),
           server'[e] = server[e], held'[e] = held[e], own'[e] = own[e],
           cache'[e] = cache[e], feed'[e] = feed[e],
           pass' # None /\ e \in pass'.todo =>
              /\ pass # None /\ e \in pass.todo
              /\ pass'.base[e] = pass.base[e]
    PROVE  RecordInvOf(e)'
BY DEF RecordInvOf

\* One turn of the loop keeps the records sound.
LEMMA ReconcileRecordInv ==
    ASSUME TypeOK, RecordInv, NEW d \in Deployments, NEW landed \in BOOLEAN,
           ReconcileDeployment(d, landed)
    PROVE  RecordInv'
<1> DEFINE base == pass.base[d]
           skip == HPASkips(d, pass.spec, pass.hpaOwned)
           want == IF skip THEN base ELSE Desired(base, pass.window, pass.spec, pass.asleep)
           new  == Patched(server[d], base, want)
<1>1. /\ pass \in Pass /\ base \in Object /\ server[d] \in Object
      /\ held[d] \in BOOLEAN /\ feed[d] \in Seq(Object) /\ own[d] \in Nat
  BY PassParts DEF ReconcileDeployment, TypeOK
<1>2. /\ pass'.todo = pass.todo \ {d} /\ pass'.base = pass.base
      /\ cache' = cache /\ pass # None /\ d \in pass.todo
  <2>1. PICK aff, skp :
            pass' = [pass EXCEPT !.todo = @ \ {d}, !.affected = aff, !.skipped = skp]
    BY DEF ReconcileDeployment
  <2> QED BY <1>1, <2>1 DEF ReconcileDeployment, Pass
<1>3. Sound(server[d], held[d]) /\ Agrees(base, server[d], held[d])
  BY <1>2 DEF RecordInv
<1>4. ASSUME NEW e \in Deployments, e # d PROVE RecordInvOf(e)'
  <2>1. /\ server'[e] = server[e] /\ held'[e] = held[e] /\ own'[e] = own[e]
        /\ feed'[e] = feed[e] /\ cache'[e] = cache[e]
    BY <1>4 DEF ReconcileDeployment, Store, TypeOK
  <2>2. RecordInvOf(e)
    BY DEF RecordInv, RecordInvOf
  <2> QED BY <1>2, <2>1, <2>2, RecordInvOfOthers
<1>5. CASE landed
  <2>1. /\ Store(d, new)
        /\ own' = [own EXCEPT ![d] = IF new = server[d] THEN @ ELSE Len(feed[d]) + 1]
        /\ held' = [held EXCEPT ![d] =
                      IF new.replicas = server[d].replicas THEN @
                      ELSE pass.asleep /\ want.replicas # Original(base)]
    BY <1>5 DEF ReconcileDeployment
  <2>2. want = base \/ want = Desired(base, pass.window, pass.spec, pass.asleep)
    OBVIOUS
  <2>3. new \in Object /\ Sound(new, Lowers(server[d], new, want, held[d]))
    <3>1. want \in Object
      BY <1>1, <1>2, <2>2, PassParts, DesiredType
    <3>2. new \in Object
      BY <1>1, <3>1, PatchedFields
    <3> HIDE DEF want
    <3> QED BY <1>1, <1>2, <1>3, <2>2, <3>2, PassParts, PatchIsSound
  <2>lowering. new.replicas # server[d].replicas =>
         ((pass.asleep /\ want.replicas # Original(base))
            <=> (want.saved # None /\ want.saved # want.replicas))
    <3> HIDE DEF want, base
    <3> QED BY <1>1, <1>2, <2>2, PassParts, LoweredIsRecorded
  <2> HIDE DEF new, want, base
  <2>4. server'[d] = new /\ held'[d] = Lowers(server[d], new, want, held[d])
    BY <2>1, <2>lowering DEF Store, Lowers, TypeOK
  <2>5. Sound(server'[d], held'[d])
    BY <2>3, <2>4
  <2>6. d \notin pass'.todo
    BY <1>2
  <2>7. CASE new = server[d]
    <3>1. feed' = feed /\ own'[d] = own[d] /\ held'[d] = held[d]
      BY <2>1, <2>4, <2>7 DEF Store, Lowers, TypeOK
    <3>2. RecordInvOf(d)
      BY DEF RecordInv, RecordInvOf
    <3> QED BY <1>2, <1>4, <2>4, <2>5, <2>6, <2>7, <3>1, <3>2, RecordInvOfAll DEF RecordInvOf
  <2>8. CASE new # server[d]
    <3>1. feed'[d] = Append(feed[d], new) /\ own'[d] = Len(feed[d]) + 1
      BY <2>1, <2>8 DEF Store, TypeOK
    <3>2. Len(feed[d]) \in Nat /\ Len(feed'[d]) = Len(feed[d]) + 1
      BY <1>1, <2>3, <3>1
    <3>3. \A i \in 1 .. Len(feed'[d]) : i >= own'[d] => feed'[d][i] = new
      BY <1>1, <2>3, <3>1, <3>2
    <3>4. Agrees(new, new, held'[d])
      BY <2>3, <2>4, <2>5, SoundAgrees, ReconcileTypeOK DEF TypeOK
    <3>5. RecordInvOf(d)'
      BY <2>4, <2>5, <2>6, <3>1, <3>2, <3>3, <3>4 DEF RecordInvOf
    <3> QED BY <1>4, <3>5, RecordInvOfAll
  <2> QED BY <2>7, <2>8
<1>6. CASE ~landed
  <2>1. UNCHANGED <<server, feed, own, held, cache>>
    BY <1>6 DEF ReconcileDeployment
  <2>2. RecordInvOf(d)
    BY DEF RecordInv, RecordInvOf
  <2>3. RecordInvOf(d)'
    BY <1>2, <2>1, <2>2 DEF RecordInvOf
  <2> QED BY <1>4, <2>3, RecordInvOfAll
<1> QED BY <1>5, <1>6

\* Delivering a version keeps the records sound: what comes later agrees still.
LEMMA DeliverRecordInv ==
    ASSUME TypeOK, RecordInv, NEW d \in Deployments, Deliver(d)
    PROVE  RecordInv'
<1>1. /\ feed[d] \in Seq(Object) /\ feed[d] # <<>> /\ own[d] \in Nat
      /\ own[d] <= Len(feed[d]) /\ Len(feed[d]) \in Nat \ {0}
  BY DEF Deliver, TypeOK
<1>2. /\ feed'[d] = Tail(feed[d]) /\ cache'[d] = feed[d][1]
      /\ own'[d] = (IF own[d] = 0 THEN 0 ELSE own[d] - 1)
      /\ server' = server /\ held' = held /\ pass' = pass
  BY <1>1 DEF Deliver, TypeOK
<1>3. /\ Len(feed'[d]) = Len(feed[d]) - 1
      /\ \A i \in 1 .. Len(feed'[d]) : feed'[d][i] = feed[d][i + 1]
  BY <1>1, <1>2
<1>4. RecordInvOf(d)
  BY RecordInvOfAll
<1>5. own'[d] = 0 => Agrees(cache'[d], server'[d], held'[d])
  <2>1. own'[d] = 0 => own[d] <= 1 /\ 1 \in 1 .. Len(feed[d])
    BY <1>1, <1>2
  <2> QED BY <1>1, <1>2, <1>4, <2>1 DEF RecordInvOf
<1>6. ASSUME NEW i \in 1 .. Len(feed'[d]), i >= own'[d]
      PROVE  Agrees(feed'[d][i], server'[d], held'[d])
  <2>1. i + 1 \in 1 .. Len(feed[d]) /\ i + 1 >= own[d]
    BY <1>1, <1>2, <1>3, <1>6
  <2> QED BY <1>2, <1>3, <1>4, <2>1 DEF RecordInvOf
<1>7. RecordInvOf(d)'
  BY <1>2, <1>4, <1>5, <1>6 DEF RecordInvOf
<1>8. ASSUME NEW e \in Deployments, e # d PROVE RecordInvOf(e)'
  <2>1. cache'[e] = cache[e] /\ feed'[e] = feed[e] /\ own'[e] = own[e]
    BY <1>8 DEF Deliver, TypeOK
  <2> QED BY <1>2, <2>1, RecordInvOfAll, RecordInvOfOthers
<1> QED BY <1>7, <1>8, RecordInvOfAll

\* Somebody else's count keeps the records sound.
LEMMA ScaleRecordInv ==
    ASSUME TypeOK, RecordInv, NEW d \in Deployments, NEW n \in Sizes, Scale(d, n)
    PROVE  RecordInv'
<1> DEFINE new == [server[d] EXCEPT !.replicas = n]
<1>1. /\ server[d] \in Object /\ feed[d] \in Seq(Object) /\ own[d] \in Nat
      /\ own[d] <= Len(feed[d]) /\ Len(feed[d]) \in Nat
  BY DEF TypeOK
<1>2. /\ new \in Object /\ new # server[d] /\ new.replicas = n
      /\ new.saved = server[d].saved /\ new.applied = server[d].applied
      /\ new.owner = server[d].owner
  <2>1. new.replicas # server[d].replicas
    BY <1>1 DEF Scale, Object
  <2> QED BY <1>1, <2>1, SizesAssumption DEF Object
<1> HIDE DEF new
<1>3. /\ server'[d] = new /\ held'[d] = FALSE /\ own' = own /\ cache' = cache
      /\ pass' = pass /\ feed'[d] = Append(feed[d], new)
  BY <1>2 DEF Scale, Store, TypeOK, new
<1>4. RecordInvOf(d)
  BY RecordInvOfAll
<1>5. Sound(new, FALSE)
  BY <1>2, <1>4 DEF RecordInvOf, Sound
<1>6. ASSUME NEW v, Agrees(v, server[d], held[d]) PROVE Agrees(v, new, FALSE)
  BY <1>2, <1>6 DEF Agrees
<1>7. Agrees(new, new, FALSE)
  BY <1>2, <1>5, SoundAgrees
<1>8. ASSUME NEW i \in 1 .. Len(feed'[d]), i >= own[d]
      PROVE  Agrees(feed'[d][i], new, FALSE)
  <2>1. CASE i = Len(feed[d]) + 1
    <3>1. feed'[d][i] = new
      BY <1>1, <1>2, <1>3, <2>1
    <3> QED BY <1>7, <3>1
  <2>2. CASE i # Len(feed[d]) + 1
    <3>1. i \in 1 .. Len(feed[d]) /\ feed'[d][i] = feed[d][i]
      BY <1>1, <1>2, <1>3, <2>2
    <3> QED BY <1>4, <1>6, <1>8, <3>1 DEF RecordInvOf
  <2> QED BY <2>1, <2>2
<1>9. RecordInvOf(d)'
  BY <1>3, <1>4, <1>5, <1>6, <1>8 DEF RecordInvOf
<1>10. ASSUME NEW e \in Deployments, e # d PROVE RecordInvOf(e)'
  <2>1. server'[e] = server[e] /\ held'[e] = held[e] /\ feed'[e] = feed[e]
    BY <1>10 DEF Scale, Store, TypeOK
  <2> QED BY <1>3, <2>1, RecordInvOfAll, RecordInvOfOthers
<1> QED BY <1>9, <1>10, RecordInvOfAll

\* Every step keeps the records sound, by the lemmas above.
LEMMA NextRecordInv ==
    ASSUME PromptCache, "strip" \notin Disturbances, TypeOK, RecordInv, [Next]_vars
    PROVE  RecordInv'
<1>1. ASSUME NEW w \in Windows, BeginPass(w) PROVE RecordInv'
  <2>1. /\ UNCHANGED <<server, cache, feed, own, held>>
        /\ pass'.base = cache /\ pass'.todo = spec[w].selects
        /\ \A d \in spec[w].selects : own[d] = 0
    BY <1>1 DEF BeginPass
  <2> QED BY <2>1 DEF RecordInv
<1>2. ASSUME Crash PROVE RecordInv'
  <2>1. ASSUME NEW d \in Deployments PROVE RecordInvOf(d)'
    <3>1. /\ server' = server /\ held' = held /\ pass' = None
          /\ cache'[d] = server[d] /\ feed'[d] = <<>>
      BY <1>2 DEF Crash, TypeOK
    <3>2. Sound(server[d], held[d]) /\ server[d] \in Object /\ held[d] \in BOOLEAN
      BY DEF RecordInv, TypeOK
    <3>3. Len(feed'[d]) = 0
      BY <3>1
    <3> QED BY <3>1, <3>2, <3>3, SoundAgrees DEF RecordInvOf
  <2> QED BY <2>1, RecordInvOfAll
<1>3. ASSUME NEW w \in Windows, EditSpec(w) PROVE RecordInv'
  <2>1. pass' # None => /\ pass # None /\ pass'.base = pass.base /\ pass'.todo = pass.todo
    BY <1>3 DEF EditSpec, TypeOK, Pass
  <2>2. UNCHANGED <<server, cache, feed, own, held>>
    BY <1>3 DEF EditSpec
  <2> QED BY <2>1, <2>2 DEF RecordInv
<1>4. ASSUME Complete \/ AbortPass PROVE RecordInv'
  BY <1>4 DEF Complete, AbortPass, RecordInv
<1>5. ASSUME NEW w \in Windows, SkipSuspended(w) \/ Boundary(w) \/ WakeFlip(w)
      PROVE  RecordInv'
  BY <1>5 DEF SkipSuspended, Boundary, WakeFlip, RecordInv
<1>6. ASSUME NEW d \in Deployments, ToggleHPA(d) PROVE RecordInv'
  BY <1>6 DEF ToggleHPA, RecordInv
<1>7. ASSUME NEW d \in Deployments, Strip(d) PROVE FALSE
  BY <1>7 DEF Strip
<1>8. ASSUME LostPatch PROVE RecordInv'
  BY <1>8, ReconcileRecordInv DEF LostPatch
<1>9. ASSUME NEW d \in Deployments, ReconcileDeployment(d, TRUE) PROVE RecordInv'
  BY <1>9, ReconcileRecordInv
<1>10. ASSUME NEW d \in Deployments, Deliver(d) PROVE RecordInv'
  BY <1>10, DeliverRecordInv
<1>11. ASSUME NEW d \in Deployments, NEW n \in Sizes, Scale(d, n) PROVE RecordInv'
  BY <1>11, ScaleRecordInv
<1>12. ASSUME UNCHANGED vars PROVE RecordInv'
  BY <1>12 DEF vars, RecordInv
<1> QED
  BY <1>1, <1>2, <1>3, <1>4, <1>5, <1>6, <1>7, <1>8, <1>9, <1>10, <1>11, <1>12
  DEF Next, System, Environment

\* When no pass starts behind the controller's own writes and nobody removes a
\* record by hand, RecordInv always holds.
THEOREM RecordIsKept ==
    ASSUME PromptCache, "strip" \notin Disturbances
    PROVE  Spec => []RecordInv
<1>1. TypeOK /\ RecordInv /\ [Next]_vars => TypeOK' /\ RecordInv'
  BY NextTypeOK, NextRecordInv
<1> QED BY <1>1, InitTypeOK, InitRecordInv, PTL DEF Spec

\* No workload is left at a lowered count without the size to restore: for any
\* windows, however they overlap and disagree, through edits, deletions, crashes,
\* lost patches and concurrent scaling.
THEOREM NothingStranded ==
    ASSUME PromptCache, "strip" \notin Disturbances
    PROVE  Spec => []NeverStranded
<1>1. RecordInv => NeverStranded
  BY DEF RecordInv, Sound, NeverStranded
<1> QED BY <1>1, RecordIsKept, PTL

\* The three annotations come and go together, whichever of their writers comes first.
THEOREM RecordIsWhole ==
    ASSUME PromptCache, "strip" \notin Disturbances
    PROVE  Spec => []AnnotationsTogether
<1>1. RecordInv => AnnotationsTogether
  BY DEF RecordInv, Sound, AnnotationsTogether
<1> QED BY <1>1, RecordIsKept, PTL

\* The recorded size is one that people or autoscalers wrote, never one of the
\* controller's own.
THEOREM SizeIsAPersons ==
    ASSUME PromptCache, "strip" \notin Disturbances
    PROVE  Spec => []SavedIsAPersonsCount
<1>1. RecordInv => SavedIsAPersonsCount
  BY DEF RecordInv, Sound, SavedIsAPersonsCount
<1> QED BY <1>1, RecordIsKept, PTL

-----------------------------------------------------------------------------
(* A person's count.                                                        *)

\* What a turn of the loop has at hand, and what it leaves.
LEMMA ReconcileParts ==
    ASSUME TypeOK, NEW d \in Deployments, NEW landed \in BOOLEAN,
           ReconcileDeployment(d, landed)
    PROVE  /\ pass # None /\ d \in pass.todo
           /\ pass.base[d] \in Object /\ server[d] \in Object
           /\ pass'.base = pass.base
           /\ \A e \in Deployments : e # d => server'[e] = server[e] /\ feed'[e] = feed[e]
           /\ \E want \in Object :
                 /\ \/ want = pass.base[d]
                    \/ want = Desired(pass.base[d], pass.window, pass.spec, pass.asleep)
                 /\ \/ server'[d] = server[d] /\ feed'[d] = feed[d]
                    \/ /\ server'[d] = Patched(server[d], pass.base[d], want)
                       /\ \/ feed'[d] = feed[d]
                          \/ feed'[d] = Append(feed[d], server'[d])
<1> DEFINE base == pass.base[d]
           skip == HPASkips(d, pass.spec, pass.hpaOwned)
           want == IF skip THEN base ELSE Desired(base, pass.window, pass.spec, pass.asleep)
           new  == Patched(server[d], base, want)
<1>1. /\ pass # None /\ d \in pass.todo /\ pass \in Pass
      /\ base \in Object /\ server[d] \in Object
  BY PassParts DEF ReconcileDeployment, TypeOK
<1>2. want \in Object
  BY <1>1, PassParts, DesiredType
<1>3. pass'.base = pass.base
  <2>1. PICK aff, skp :
            pass' = [pass EXCEPT !.todo = @ \ {d}, !.affected = aff, !.skipped = skp]
    BY DEF ReconcileDeployment
  <2> QED BY <1>1, <2>1 DEF Pass
<1>4. CASE landed
  <2>1. Store(d, new)
    BY <1>4 DEF ReconcileDeployment
  <2>2. /\ server'[d] = new
        /\ \A e \in Deployments : e # d => server'[e] = server[e] /\ feed'[e] = feed[e]
        /\ feed'[d] = feed[d] \/ feed'[d] = Append(feed[d], new)
    BY <2>1 DEF Store, TypeOK
  <2>3. want = base \/ want = Desired(base, pass.window, pass.spec, pass.asleep)
    OBVIOUS
  <2> QED BY <1>1, <1>2, <1>3, <2>2, <2>3
<1>5. CASE ~landed
  BY <1>1, <1>3, <1>5 DEF ReconcileDeployment
<1> QED BY <1>4, <1>5

\* A turn that stands down leaves the count a person wrote.
LEMMA StepLeavesPersonsCount ==
    ASSUME TypeOK, RecordInv, [Next]_vars,
           NEW d \in Deployments, pass # None, d \in pass.todo,
           pass' # None, d \notin pass'.todo, pass.asleep,
           StandsDown(server[d], pass.spec), server[d].applied = pass.spec.minReplicas
    PROVE  server'[d].replicas = server[d].replicas
<1>1. ASSUME NEW e \in Deployments, NEW landed \in BOOLEAN, ReconcileDeployment(e, landed)
      PROVE  server'[d].replicas = server[d].replicas
  <2>1. CASE e # d
    BY <1>1, <2>1, ReconcileParts
  <2>2. CASE e = d
    <3>1. PICK want \in Object :
             /\ \/ want = pass.base[d]
                \/ want = Desired(pass.base[d], pass.window, pass.spec, pass.asleep)
             /\ \/ server'[d] = server[d]
                \/ server'[d] = Patched(server[d], pass.base[d], want)
      BY <1>1, <2>2, ReconcileParts
    <3>2. /\ Agrees(pass.base[d], server[d], held[d]) /\ Sound(server[d], held[d])
          /\ pass.base[d] \in Object /\ server[d] \in Object
      BY <1>1, <2>2, ReconcileParts DEF RecordInv
    <3>3. /\ pass.base[d].applied = pass.spec.minReplicas
          /\ pass.base[d].saved # None /\ pass.base[d].applied # None
      BY <3>2 DEF Agrees, Sound, StandsDown, ManuallyChanged
    <3>4. StandsDown(pass.base[d], pass.spec) \/ InPlaceAsleep(pass.base[d], pass.spec)
      BY <3>3 DEF StandsDown, ManuallyChanged, InPlaceAsleep
    <3>5. want = pass.base[d]
      BY <3>1, <3>4 DEF Desired, WhileAsleep
    <3> QED BY <3>1, <3>2, <3>5, PatchedFields
  <2> QED BY <2>1, <2>2
<1>2. ASSUME UNCHANGED server PROVE server'[d].replicas = server[d].replicas
  BY <1>2
<1>3. ASSUME pass' = pass PROVE FALSE
  BY <1>3
<1> QED
  BY <1>1, <1>2, <1>3 DEF Next, System, LostPatch, Environment, SkipSuspended,
     BeginPass, Complete, AbortPass, Deliver, Crash, Scale, Strip, EditSpec, Boundary,
     WakeFlip, ToggleHPA, vars

\* Whoever changed the count after the controller last wrote it keeps that count
\* for as long as the window sleeps and respects people, whatever overlaps, is
\* edited, lost or restarted meanwhile.
THEOREM PeopleWin ==
    ASSUME PromptCache, "strip" \notin Disturbances
    PROVE  Spec => MidnightScaleWins
<1>1. TypeOK /\ RecordInv /\ [Next]_vars =>
        [\A d \in Deployments :
          (/\ pass # None /\ d \in pass.todo
           /\ pass' # None /\ d \notin pass'.todo
           /\ pass.asleep /\ StandsDown(server[d], pass.spec)
           /\ server[d].applied = pass.spec.minReplicas)
          => server'[d].replicas = server[d].replicas]_vars
  BY StepLeavesPersonsCount
<1> QED
  BY <1>1, TypeCorrect, RecordIsKept, PTL DEF Spec, MidnightScaleWins

-----------------------------------------------------------------------------
(* The size of a workload, when nobody else writes counts: any lag.         *)

\* The windows agree on the floor m.
Floor(m) == m \in Nat /\ \A s \in Specs : s.minReplicas = m

\* Between the two forms of one workload, a patch computed from any copy takes
\* any version to one of the two forms again.
LEMMA PatchKeepsForms ==
    ASSUME NEW m \in Nat, NEW size \in Nat, NEW obj \in Object, NEW base \in Object,
           InForm(obj, size, m), InForm(base, size, m),
           NEW w \in Windows, NEW s \in SpecType, s.minReplicas = m,
           NEW asleep \in BOOLEAN,
           NEW want, want = base \/ want = Desired(base, w, s, asleep),
           NEW new, new = Patched(obj, base, want)
    PROVE  InForm(new, size, m)
<1>1. None \notin Nat /\ None \notin Windows
  BY NoneAssumption
<1>2. want \in Object
  BY DesiredType
<1>3. /\ new.replicas = IF want.replicas # base.replicas THEN want.replicas ELSE obj.replicas
      /\ new.saved = IF want.saved # base.saved THEN want.saved ELSE obj.saved
      /\ new.applied = IF want.applied # base.applied THEN want.applied ELSE obj.applied
      /\ new.owner = IF want.owner # base.owner THEN want.owner ELSE obj.owner
  BY <1>2, PatchedFields
<1>4. CASE want = base
  BY <1>3, <1>4 DEF InForm
<1>5. ~StandsDown(base, s)
  BY <1>1 DEF InForm, StandsDown, ManuallyChanged
<1>6. CASE base.saved = None
  <2>1. base.replicas = size /\ base.applied = None /\ base.owner = None
    BY <1>1, <1>6 DEF InForm
  <2>2. want = base \/ want = ScaleTo(base, w, m, size)
    BY <1>5, <1>6, <2>1 DEF Desired, WhileAsleep, WhileAwake, ClearAnnotations,
                           InPlaceAsleep, Original
  <2>3. CASE want = ScaleTo(base, w, m, size)
    <3>1. /\ want.replicas = m /\ want.saved = size /\ want.applied = m /\ want.owner = w
      BY <2>3 DEF ScaleTo
    <3> QED BY <1>1, <1>3, <1>6, <2>1, <3>1 DEF InForm
  <2> QED BY <1>4, <2>2, <2>3
<1>7. CASE base.saved # None
  <2>1. base.replicas = m /\ base.saved = size /\ base.applied = m /\ base.owner # None
    BY <1>7 DEF InForm
  <2>2. want = base \/ want = Untouched(size)
    BY <1>5, <1>7, <2>1 DEF Desired, WhileAsleep, WhileAwake, ClearAnnotations,
                           InPlaceAsleep, RestoreTo
  <2>3. CASE want = Untouched(size)
    <3>1. /\ want.replicas = size /\ want.saved = None /\ want.applied = None
          /\ want.owner = None
      BY <2>3 DEF Untouched
    <3> QED BY <1>1, <1>3, <2>1, <3>1 DEF InForm
  <2> QED BY <1>4, <2>2, <2>3
<1> QED BY <1>6, <1>7

\* A version in form has that size.
LEMMA FormHasSize ==
    ASSUME NEW v, NEW size \in Nat, NEW m, InForm(v, size, m)
    PROVE  Original(v) = size
BY NoneAssumption DEF InForm, Original

\* At first every version is the workload at its size, untouched.
LEMMA InitTwoForms == ASSUME NEW m, Init PROVE TwoForms(m)
<1> SUFFICES ASSUME NEW d \in Deployments
             PROVE  /\ InForm(server[d], Original(server[d]), m)
                    /\ InForm(cache[d], Original(server[d]), m)
                    /\ \A i \in 1 .. Len(feed[d]) :
                          InForm(feed[d][i], Original(server[d]), m)
                    /\ pass # None => InForm(pass.base[d], Original(server[d]), m)
  BY DEF TwoForms
<1>1. PICK n \in Sizes : server[d] = Untouched(n)
  BY DEF Init
<1>2. InForm(server[d], Original(server[d]), m)
  BY <1>1 DEF Untouched, InForm, Original
<1>3. cache[d] = server[d] /\ feed[d] = <<>> /\ pass = None
  BY DEF Init
<1>4. Len(feed[d]) = 0
  BY <1>3
<1> QED BY <1>2, <1>3, <1>4

\* While nobody else writes, every step keeps every version in one of the two
\* forms and keeps the size.
LEMMA NextTwoForms ==
    ASSUME "scale" \notin Disturbances, "strip" \notin Disturbances,
           NEW m, Floor(m), TypeOK, TwoForms(m), [Next]_vars
    PROVE  /\ TwoForms(m)'
           /\ \A d \in Deployments : Original(server'[d]) = Original(server[d])
<1> DEFINE Goal == /\ TwoForms(m)'
                   /\ \A d \in Deployments : Original(server'[d]) = Original(server[d])
<1>0. \A d \in Deployments : server[d] \in Object /\ Original(server[d]) \in Nat
  BY DEF TypeOK, Object, Original
<1>1. ASSUME NEW d \in Deployments, NEW landed \in BOOLEAN, ReconcileDeployment(d, landed)
      PROVE  Goal
  <2> DEFINE size == Original(server[d])
  <2>1. PICK want \in Object :
           /\ \/ want = pass.base[d]
              \/ want = Desired(pass.base[d], pass.window, pass.spec, pass.asleep)
           /\ \/ server'[d] = server[d] /\ feed'[d] = feed[d]
              \/ /\ server'[d] = Patched(server[d], pass.base[d], want)
                 /\ \/ feed'[d] = feed[d]
                    \/ feed'[d] = Append(feed[d], server'[d])
    BY <1>1, ReconcileParts
  <2>2. /\ pass # None /\ pass.base[d] \in Object /\ server[d] \in Object
        /\ pass'.base = pass.base /\ cache' = cache
        /\ \A e \in Deployments : e # d => server'[e] = server[e] /\ feed'[e] = feed[e]
    BY <1>1, ReconcileParts DEF ReconcileDeployment
  <2>3. pass.spec.minReplicas = m /\ m \in Nat
    BY <2>2, PassParts DEF Pass, Floor
  <2>4. InForm(server'[d], size, m)
    <3>1. InForm(server[d], size, m) /\ InForm(pass.base[d], size, m)
      BY <2>2 DEF TwoForms
    <3> QED BY <1>0, <2>1, <2>2, <2>3, <3>1, PassParts, PatchKeepsForms
  <2>5. Original(server'[d]) = size
    BY <1>0, <2>4, FormHasSize
  <2>6. \A i \in 1 .. Len(feed'[d]) : InForm(feed'[d][i], size, m)
    <3>1. \A i \in 1 .. Len(feed[d]) : InForm(feed[d][i], size, m)
      BY DEF TwoForms
    <3>2. feed[d] \in Seq(Object) /\ server'[d] \in Object
      BY <1>1, ReconcileTypeOK DEF TypeOK
    <3>3. CASE feed'[d] = feed[d]
      BY <3>1, <3>3
    <3>4. CASE feed'[d] = Append(feed[d], server'[d])
      BY <2>4, <3>1, <3>2, <3>4
    <3> QED BY <2>1, <3>3, <3>4
  <2>7. ASSUME NEW e \in Deployments
        PROVE  LET sz == Original(server'[e]) IN
               /\ sz = Original(server[e])
               /\ InForm(server'[e], sz, m) /\ InForm(cache'[e], sz, m)
               /\ \A i \in 1 .. Len(feed'[e]) : InForm(feed'[e][i], sz, m)
               /\ pass' # None => InForm(pass'.base[e], sz, m)
    <3>1. CASE e = d
      BY <2>2, <2>4, <2>5, <2>6, <3>1 DEF TwoForms
    <3>2. CASE e # d
      BY <2>2, <3>2 DEF TwoForms
    <3> QED BY <3>1, <3>2
  <2> QED BY <2>7 DEF TwoForms
<1>2. ASSUME NEW d \in Deployments, Deliver(d) PROVE Goal
  <2>1. /\ feed[d] \in Seq(Object) /\ feed[d] # <<>> /\ Len(feed[d]) \in Nat \ {0}
    BY <1>2 DEF Deliver, TypeOK
  <2>2. /\ server' = server /\ pass' = pass
        /\ \A e \in Deployments :
              /\ cache'[e] = IF e = d THEN feed[d][1] ELSE cache[e]
              /\ feed'[e] = IF e = d THEN Tail(feed[d]) ELSE feed[e]
    BY <1>2, <2>1 DEF Deliver, TypeOK
  <2>3. \A i \in 1 .. Len(Tail(feed[d])) :
           i + 1 \in 1 .. Len(feed[d]) /\ Tail(feed[d])[i] = feed[d][i + 1]
    BY <2>1
  <2>4. 1 \in 1 .. Len(feed[d])
    BY <2>1
  <2>5. ASSUME NEW e \in Deployments
        PROVE  LET sz == Original(server[e]) IN
               /\ InForm(cache'[e], sz, m)
               /\ \A i \in 1 .. Len(feed'[e]) : InForm(feed'[e][i], sz, m)
    <3>1. /\ InForm(cache[e], Original(server[e]), m)
          /\ \A i \in 1 .. Len(feed[e]) : InForm(feed[e][i], Original(server[e]), m)
      BY DEF TwoForms
    <3>2. CASE e = d
      BY <2>2, <2>3, <2>4, <3>1, <3>2
    <3>3. CASE e # d
      BY <2>2, <3>1, <3>3
    <3> QED BY <3>2, <3>3
  <2> QED BY <2>2, <2>5 DEF TwoForms
<1>3. ASSUME NEW w \in Windows, BeginPass(w) PROVE Goal
  <2>1. UNCHANGED <<server, cache, feed>> /\ pass'.base = cache
    BY <1>3 DEF BeginPass
  <2> QED BY <2>1 DEF TwoForms
<1>4. ASSUME Crash PROVE Goal
  <2>1. /\ server' = server /\ cache' = server /\ pass' = None
        /\ \A d \in Deployments : Len(feed'[d]) = 0
    BY <1>4 DEF Crash
  <2> QED BY <2>1 DEF TwoForms
<1>5. ASSUME NEW w \in Windows, EditSpec(w) PROVE Goal
  <2>1. /\ UNCHANGED <<server, cache, feed>>
        /\ pass' # None => pass # None /\ pass'.base = pass.base
    BY <1>5 DEF EditSpec, TypeOK, Pass
  <2> QED BY <2>1 DEF TwoForms
<1>6. ASSUME Complete \/ AbortPass PROVE Goal
  BY <1>6 DEF Complete, AbortPass, TwoForms
<1>7. ASSUME UNCHANGED <<server, cache, feed, pass>> PROVE Goal
  BY <1>7 DEF TwoForms
<1>8. ASSUME NEW d \in Deployments, Strip(d) \/ \E n \in Sizes : Scale(d, n) PROVE FALSE
  BY <1>8 DEF Strip, Scale
<1> HIDE DEF Goal
<1>9. Goal
  BY <1>1, <1>2, <1>3, <1>4, <1>5, <1>6, <1>7, <1>8
  DEF Next, System, LostPatch, Environment, SkipSuspended, Boundary, WakeFlip, ToggleHPA, vars
<1> QED BY <1>9 DEF Goal

\* Where nobody else writes counts, the controller never changes what a workload
\* would be given back: however far its copies lag, however often it repeats,
\* loses or restarts a pass, and however many windows with one floor overlap.
THEOREM SizeNeverForgotten ==
    ASSUME "scale" \notin Disturbances, "strip" \notin Disturbances, NEW m, Floor(m)
    PROVE  Spec => SizeIsKept
<1>1. Init => TwoForms(m)
  BY InitTwoForms
<1>2. TypeOK /\ TwoForms(m) /\ [Next]_vars =>
        /\ TwoForms(m)'
        /\ [\A d \in Deployments : Original(server'[d]) = Original(server[d])]_vars
  BY NextTwoForms
<1> QED BY <1>1, <1>2, TypeCorrect, PTL DEF Spec, SizeIsKept

-----------------------------------------------------------------------------
(* The abstract promise.                                                    *)

Owed(d) == Original(Known(d))

\* One workload's share of a step of Custody, in terms of this module.
CustodyStep(d) ==
    \/ /\ server'[d].replicas \in {s.minReplicas : s \in Specs}
       /\ held'[d] /\ Owed(d)' = Owed(d)
    \/ server'[d].replicas = Owed(d) /\ ~held'[d] /\ Owed(d)' = Owed(d)
    \/ server'[d].replicas \in Sizes /\ ~held'[d] /\ Owed(d)' = Owed(d)
    \/ /\ ~held[d] /\ ~held'[d] /\ server'[d].replicas = server[d].replicas
       /\ Owed(d)' \in Sizes
    \/ /\ server'[d].replicas = server[d].replicas
       /\ held'[d] = held[d] /\ Owed(d)' = Owed(d)

\* The copy the controller goes by carries the server's record, and owes the
\* workload a size that somebody wrote.
LEMMA KnownAgrees ==
    ASSUME TypeOK, RecordInv, NEW d \in Deployments
    PROVE  /\ Agrees(Known(d), server[d], held[d])
           /\ Owed(d) \in Sizes
           /\ held[d] => Owed(d) = server[d].saved
<1>1. RecordInvOf(d)
  BY RecordInvOfAll
<1>2. own[d] \in Nat /\ Len(feed[d]) \in Nat /\ own[d] <= Len(feed[d])
  BY DEF TypeOK
<1>3. Agrees(Known(d), server[d], held[d])
  <2>1. CASE pass # None /\ d \in pass.todo
    BY <1>1, <2>1 DEF RecordInvOf, Known
  <2>2. CASE ~(pass # None /\ d \in pass.todo) /\ own[d] # 0
    <3>1. own[d] \in 1 .. Len(feed[d])
      BY <1>2, <2>2
    <3> QED BY <1>1, <1>2, <2>2, <3>1 DEF RecordInvOf, Known
  <2>3. CASE ~(pass # None /\ d \in pass.todo) /\ own[d] = 0
    BY <1>1, <2>3 DEF RecordInvOf, Known
  <2> QED BY <2>1, <2>2, <2>3
<1> QED BY <1>1, <1>3 DEF RecordInvOf, Sound, Agrees, Owed, Original

\* The same, now and after a step.
SizesAreOwed ==
    \A d \in Deployments : Owed(d) \in Sizes /\ (held[d] => Owed(d) = server[d].saved)

\* The controller keeps knowing, for every workload, a size that somebody wrote.
LEMMA SizesAreOwedNext ==
    /\ TypeOK /\ RecordInv => SizesAreOwed
    /\ TypeOK' /\ RecordInv' => SizesAreOwed'
<1>1. TypeOK /\ RecordInv => SizesAreOwed
  BY KnownAgrees DEF SizesAreOwed
<1> QED BY <1>1, PTL

\* A step that leaves a workload's object alone keeps or adopts its size.
LEMMA QuietCustody ==
    ASSUME TypeOK, RecordInv, TypeOK', RecordInv', NEW d \in Deployments,
           server'[d] = server[d], held'[d] = held[d]
    PROVE  CustodyStep(d)
<1>1. held[d] => Owed(d) = server[d].saved
  BY KnownAgrees
<1>2. Owed(d)' \in Sizes /\ (held'[d] => Owed(d)' = server'[d].saved)
  BY SizesAreOwedNext DEF SizesAreOwed
<1>3. CASE held[d]
  <2>1. Owed(d)' = Owed(d)
    BY <1>1, <1>2, <1>3
  <2> QED BY <2>1 DEF CustodyStep
<1>4. CASE ~held[d]
  <2>1. ~held'[d]
    BY <1>4
  <2> QED BY <1>2, <1>4, <2>1 DEF CustodyStep
<1> QED BY <1>3, <1>4

\* A count somebody else writes leaves the size as the controller knows it.
LEMMA ScaleCustody ==
    ASSUME TypeOK, RecordInv, TypeOK', RecordInv', NEW d \in Deployments, NEW n \in Sizes,
           Scale(d, n), NEW e \in Deployments
    PROVE  CustodyStep(e)
<1> DEFINE new == [server[d] EXCEPT !.replicas = n]
<1>1. /\ server[d] \in Object /\ feed[d] \in Seq(Object) /\ own[d] \in Nat
      /\ own[d] <= Len(feed[d]) /\ Len(feed[d]) \in Nat
  BY DEF TypeOK
<1>2. new \in Object /\ new.replicas = n
  BY <1>1, SizesAssumption DEF Object
<1> HIDE DEF new
<1>3. CASE e # d
  <2>1. server'[e] = server[e] /\ held'[e] = held[e]
    BY <1>3 DEF Scale, Store, TypeOK
  <2> QED BY <2>1, QuietCustody
<1>4. CASE e = d
  <2>1. /\ server'[d] = new /\ held'[d] = FALSE /\ own' = own /\ cache' = cache
        /\ pass' = pass
        /\ feed'[d] = feed[d] \/ feed'[d] = Append(feed[d], new)
    BY DEF Scale, Store, TypeOK, new
  <2>2. own[d] # 0 => feed'[d][own[d]] = feed[d][own[d]]
    BY <1>1, <1>2, <2>1
  <2>3. Owed(d)' = Owed(d)
    BY <2>1, <2>2 DEF Owed, Known
  <2> QED BY <1>2, <1>4, <2>1, <2>3 DEF CustodyStep
<1> QED BY <1>3, <1>4

\* What a patch does to the size and the count, from a copy with the record in force.
LEMMA PatchCustody ==
    ASSUME NEW obj \in Object, NEW base \in Object, NEW w \in Windows,
           NEW s \in SpecType, NEW asleep \in BOOLEAN, NEW lowered \in BOOLEAN,
           Sound(obj, lowered), Agrees(base, obj, lowered),
           NEW want, want = Desired(base, w, s, asleep), want # base,
           NEW new, new = Patched(obj, base, want),
           NEW after, after = Lowers(obj, new, want, lowered)
    PROVE  \/ Original(new) = Original(base)
              /\ \/ new.replicas = s.minReplicas /\ after
                 \/ new.replicas = Original(base) /\ ~after
                 \/ new.replicas = obj.replicas /\ after = lowered
           \/ ~lowered /\ ~after /\ new.replicas = obj.replicas
<1>1. want \in Object
  BY DesiredType
<1>2. /\ new \in Object
      /\ new.saved = want.saved
      /\ new.replicas = IF want.replicas # base.replicas THEN want.replicas
                        ELSE obj.replicas
  BY <1>1, PatchFromCurrentRecord
<1>3. None \notin Nat
  BY NoneAssumption
<1>4. CASE want = ScaleTo(base, w, s.minReplicas, Original(base))
  <2>1. want.replicas = s.minReplicas /\ want.saved = Original(base)
    BY <1>4 DEF ScaleTo
  <2>2. Original(base) \in Nat
    BY DEF Original, Object
  <2>3. Original(new) = Original(base)
    BY <1>2, <1>3, <2>1, <2>2 DEF Original
  <2>4. CASE new.replicas = obj.replicas
    BY <2>3, <2>4 DEF Lowers
  <2>5. CASE new.replicas # obj.replicas
    <3>1. new.replicas = s.minReplicas /\ after = (Original(base) # s.minReplicas)
      BY <1>2, <1>3, <2>1, <2>2, <2>5 DEF Lowers
    <3> QED BY <2>3, <3>1
  <2> QED BY <2>4, <2>5
<1>5. CASE /\ want = Untouched(base.replicas) /\ base.saved # None
           /\ StandsDown(base, s) \/ base.saved = base.replicas
  <2>1. new.replicas = obj.replicas
    BY <1>2, <1>5 DEF Untouched
  <2>2. ~lowered
    BY <1>5 DEF Agrees, Sound, StandsDown, ManuallyChanged
  <2> QED BY <2>1, <2>2 DEF Lowers
<1>6. CASE want = RestoreTo(base, base.saved) /\ base.saved # None /\ base.saved # base.replicas
  <2>1. new.replicas = base.saved /\ new.saved = None /\ want.saved = None
    BY <1>2, <1>6 DEF RestoreTo, Untouched
  <2>2. Original(new) = Original(base) /\ new.replicas = Original(base)
    BY <1>6, <2>1 DEF Original
  <2>3. ~after
    BY <2>1 DEF Lowers, Agrees, Sound
  <2> QED BY <2>2, <2>3
<1>7. \/ want = ScaleTo(base, w, s.minReplicas, Original(base))
      \/ /\ want = Untouched(base.replicas) /\ base.saved # None
         /\ StandsDown(base, s) \/ base.saved = base.replicas
      \/ want = RestoreTo(base, base.saved) /\ base.saved # None /\ base.saved # base.replicas
  BY DEF Desired, WhileAsleep, WhileAwake, ClearAnnotations
<1> QED BY <1>4, <1>5, <1>6, <1>7

\* A turn of the loop lowers a workload, gives it its size back, or takes a count
\* somebody wrote for the size.
LEMMA ReconcileCustody ==
    ASSUME TypeOK, RecordInv, TypeOK', RecordInv', NEW d \in Deployments,
           NEW landed \in BOOLEAN, ReconcileDeployment(d, landed), NEW e \in Deployments
    PROVE  CustodyStep(e)
<1> DEFINE base == pass.base[d]
           skip == HPASkips(d, pass.spec, pass.hpaOwned)
           want == IF skip THEN base ELSE Desired(base, pass.window, pass.spec, pass.asleep)
           new  == Patched(server[d], base, want)
<1>1. /\ pass \in Pass /\ base \in Object /\ server[d] \in Object
      /\ held[d] \in BOOLEAN /\ feed[d] \in Seq(Object) /\ own[d] \in Nat
      /\ pass # None /\ d \in pass.todo
  BY PassParts DEF ReconcileDeployment, TypeOK
<1>2. d \notin pass'.todo
  <2>1. PICK aff, skp :
            pass' = [pass EXCEPT !.todo = @ \ {d}, !.affected = aff, !.skipped = skp]
    BY DEF ReconcileDeployment
  <2> QED BY <1>1, <2>1 DEF Pass
<1>3. Sound(server[d], held[d]) /\ Agrees(base, server[d], held[d])
  BY <1>1 DEF RecordInv
<1>4. CASE ~landed \/ e # d
  <2>1. server'[e] = server[e] /\ held'[e] = held[e]
    BY <1>4 DEF ReconcileDeployment, Store, TypeOK
  <2> QED BY <2>1, QuietCustody
<1>5. CASE landed /\ e = d
  <2>1. /\ Store(d, new)
        /\ own' = [own EXCEPT ![d] = IF new = server[d] THEN @ ELSE Len(feed[d]) + 1]
        /\ held' = [held EXCEPT ![d] =
                      IF new.replicas = server[d].replicas THEN @
                      ELSE pass.asleep /\ want.replicas # Original(base)]
    BY <1>5 DEF ReconcileDeployment
  <2>2. want = base \/ want = Desired(base, pass.window, pass.spec, pass.asleep)
    OBVIOUS
  <2>3. want \in Object
    BY <1>1, <2>2, PassParts, DesiredType
  <2>4. new \in Object
    BY <1>1, <2>3, PatchedFields
  <2>5. want = base => new = server[d]
    <3> HIDE DEF want, base
    <3> QED BY <1>1, <1>3, <2>3, PatchFromCurrentRecord
  <2>6. pass.spec \in Specs /\ pass.spec \in SpecType /\ pass.window \in Windows
        /\ pass.asleep \in BOOLEAN
    BY <1>1, PassParts DEF Pass
  <2>7. Owed(d) = Original(base)
    BY <1>1 DEF Owed, Known
  <2>lowering. new.replicas # server[d].replicas =>
           ((pass.asleep /\ want.replicas # Original(base))
              <=> (want.saved # None /\ want.saved # want.replicas))
    <3> HIDE DEF want, base
    <3> QED BY <1>1, <2>2, <2>6, LoweredIsRecorded
  <2> HIDE DEF new, want, base
  <2>8. /\ server'[d] = new /\ held'[d] = Lowers(server[d], new, want, held[d])
        /\ new = server[d] => held'[d] = held[d]
    BY <2>1, <2>lowering DEF Store, Lowers, TypeOK
  <2>9. CASE new = server[d]
    BY <1>5, <2>8, <2>9, QuietCustody
  <2>10. CASE new # server[d]
    <3>1. feed'[d] = Append(feed[d], new) /\ own'[d] = Len(feed[d]) + 1
      BY <2>1, <2>10 DEF Store, TypeOK
    <3>2. own'[d] # 0 /\ feed'[d][own'[d]] = new
      BY <1>1, <2>4, <3>1
    <3>3. Owed(d)' = Original(new)
      <4>1. Known(d)' = new
        BY <1>2, <3>2 DEF Known
      <4> QED BY <4>1 DEF Owed, Original
    <3>4. want = Desired(base, pass.window, pass.spec, pass.asleep) /\ want # base
      BY <2>2, <2>5, <2>10
    <3>5. \/ Original(new) = Original(base)
             /\ \/ new.replicas = pass.spec.minReplicas /\ held'[d]
                \/ new.replicas = Original(base) /\ ~held'[d]
                \/ new.replicas = server[d].replicas /\ held'[d] = held[d]
          \/ ~held[d] /\ ~held'[d] /\ new.replicas = server[d].replicas
      <4> DEFINE after == Lowers(server[d], new, want, held[d])
      <4>1. new = Patched(server[d], base, want)
        BY DEF new
      <4>2. \/ Original(new) = Original(base)
               /\ \/ new.replicas = pass.spec.minReplicas /\ after
                  \/ new.replicas = Original(base) /\ ~after
                  \/ new.replicas = server[d].replicas /\ after = held[d]
            \/ ~held[d] /\ ~after /\ new.replicas = server[d].replicas
        BY <1>1, <1>3, <2>6, <3>4, <4>1, PatchCustody
      <4> HIDE DEF after
      <4>3. held'[d] = after
        BY <2>8 DEF after
      <4> QED BY <4>2, <4>3
    <3>6. Owed(d)' \in Sizes
      BY SizesAreOwedNext DEF SizesAreOwed
    <3> QED BY <1>5, <2>6, <2>7, <2>8, <3>3, <3>5, <3>6 DEF CustodyStep
  <2> QED BY <2>9, <2>10
<1> QED BY <1>4, <1>5

\* Every step is, for every workload, one of the steps Custody allows.
LEMMA NextCustody ==
    ASSUME PromptCache, "strip" \notin Disturbances, TypeOK, RecordInv, TypeOK', RecordInv',
           [Next]_vars, NEW e \in Deployments
    PROVE  CustodyStep(e)
<1>1. ASSUME server' = server, held' = held PROVE CustodyStep(e)
  BY <1>1, QuietCustody
<1>2. ASSUME NEW w \in Windows,
             SkipSuspended(w) \/ BeginPass(w) \/ EditSpec(w) \/ Boundary(w) \/ WakeFlip(w)
      PROVE  CustodyStep(e)
  BY <1>1, <1>2 DEF SkipSuspended, BeginPass, EditSpec, Boundary, WakeFlip
<1>3. ASSUME Complete \/ AbortPass \/ Crash PROVE CustodyStep(e)
  BY <1>1, <1>3 DEF Complete, AbortPass, Crash
<1>4. ASSUME NEW d \in Deployments, Deliver(d) \/ ToggleHPA(d) PROVE CustodyStep(e)
  BY <1>1, <1>4 DEF Deliver, ToggleHPA
<1>5. ASSUME NEW d \in Deployments, Strip(d) PROVE FALSE
  BY <1>5 DEF Strip
<1>6. ASSUME LostPatch PROVE CustodyStep(e)
  BY <1>6, ReconcileCustody DEF LostPatch
<1>7. ASSUME NEW d \in Deployments, ReconcileDeployment(d, TRUE) PROVE CustodyStep(e)
  BY <1>7, ReconcileCustody
<1>8. ASSUME NEW d \in Deployments, NEW n \in Sizes, Scale(d, n) PROVE CustodyStep(e)
  BY <1>8, ScaleCustody
<1>9. ASSUME UNCHANGED vars PROVE CustodyStep(e)
  BY <1>1, <1>9 DEF vars
<1> QED BY <1>2, <1>3, <1>4, <1>5, <1>6, <1>7, <1>8, <1>9 DEF Next, System, Environment

\* The shares of all workloads make a step of Custody.
LEMMA CustodySteps ==
    (\A d \in Deployments : CustodyStep(d)) => Promise!Next
BY DEF CustodyStep, Owed, Promise!Next, Promise!Lower, Promise!Restore, Promise!Write,
       Promise!Adopt, Promise!Stays, Promise!SizeKept

\* The first state is one of Custody.
LEMMA InitCustody == Init => Promise!Init
<1> SUFFICES ASSUME Init PROVE Promise!Init
  OBVIOUS
<1>1. ASSUME NEW d \in Deployments
      PROVE  /\ server[d].replicas \in Sizes /\ held[d] = FALSE
             /\ Original(Known(d)) = server[d].replicas
  <2>1. PICK n \in Sizes : server[d] = Untouched(n)
    BY DEF Init
  <2>2. Known(d) = server[d] /\ held[d] = FALSE
    BY DEF Init, Known
  <2> QED BY <2>1, <2>2 DEF Untouched, Original
<1>2. held = [d \in Deployments |-> FALSE]
  BY DEF Init
<1> QED BY <1>1, <1>2 DEF Promise!Init

\* The controller implements Custody: through crashes, lost patches, overlapping
\* and edited windows and other writers, a lowered workload's size is neither lost
\* nor changed, and the workload comes back to it.
THEOREM ImplementsCustody ==
    ASSUME PromptCache, "strip" \notin Disturbances
    PROVE  Spec => KeepsCustody
<1>1. TypeOK /\ RecordInv /\ TypeOK' /\ RecordInv' /\ [Next]_vars => Promise!Next
  BY NextCustody, CustodySteps
<1> QED BY <1>1, InitCustody, TypeCorrect, RecordIsKept, PTL
        DEF Spec, KeepsCustody, Promise!Spec
=============================================================================
