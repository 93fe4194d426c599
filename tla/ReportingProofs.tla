--------------------------- MODULE ReportingProofs ---------------------------
(* Theorems about Reporting, for any number of windows, workloads, nodes,  *)
(* pods and budgets, and any number of disturbances.                       *)
EXTENDS Reporting, TLAPS, FiniteSetTheorems

-----------------------------------------------------------------------------
(* Types.                                                                   *)

\* A census of finitely many nodes and pods is a pair of counts.
LEMMA CensusType ==
    ASSUME TypeOK, NEW ns \in SUBSET DOMAIN Nodes
    PROVE  Census([n \in ns |-> Nodes[n]], pods) \in [workers : Nat, drainable : Nat]
<1> DEFINE listed     == [n \in ns |-> Nodes[n]]
           workers    == {n \in DOMAIN listed : IsWorker(listed[n])}
           holders(n) == Cardinality({p \in DOMAIN pods : pods[p].node = n /\ HoldsNode(pods[p])})
           free       == {n \in workers : holders(n) = 0}
<1>1. workers \subseteq DOMAIN Nodes /\ free \subseteq DOMAIN Nodes
  OBVIOUS
<1>2. IsFiniteSet(workers) /\ IsFiniteSet(free)
  BY <1>1, FiniteAssumption, FS_Subset
<1>3. Cardinality(workers) \in Nat /\ Cardinality(free) \in Nat
  BY <1>2, FS_CardinalityType
<1>4. Census(listed, pods) = [workers |-> Cardinality(workers), drainable |-> Cardinality(free)]
  BY DEF Census
<1> HIDE DEF workers, free
<1> QED BY <1>3, <1>4

\* An order of the members of a finite set is a sequence of them.
LEMMA OrderType ==
    ASSUME NEW S, IsFiniteSet(S), NEW order \in Orders(S)
    PROVE  order \in Seq(S)
<1>1. Cardinality(S) \in Nat
  BY FS_CardinalityType
<1> QED BY <1>1 DEF Orders

\* A sequence over a part is one over the whole, and may be followed by another.
LEMMA SeqWithin ==
    ASSUME NEW S, NEW T, NEW U, S \subseteq U, T \subseteq U, NEW s \in Seq(S), NEW t \in Seq(T)
    PROVE  s \o t \in Seq(U)
<1>1. s \in Seq(U)
  OBVIOUS
<1>2. t \in Seq(U)
  OBVIOUS
<1> QED BY <1>1, <1>2

\* The fields of the pass in progress.
LEMMA PassType ==
    ASSUME TypeOK, pass # None
    PROVE  /\ pass \in Pass /\ pass.window \in Windows
           /\ pass.stage \in {"nodes", "pods", "budgets", "write", "publish"}
           /\ pass.spec \in Specs /\ pass.spec # None
           /\ pass.status \in Status /\ pass.fresh \in BOOLEAN
           /\ pass.nodes \in SUBSET DOMAIN Nodes /\ pass.blockers \in Seq(Exempt)
BY SpecsAssumption DEF TypeOK, Pass

\* What a copy of a window holds.
LEMMA SeenType ==
    ASSUME TypeOK, NEW w \in Windows, seen[w] # None
    PROVE  seen[w] \in View /\ seen[w].spec \in Specs /\ seen[w].status \in Status
BY DEF TypeOK, View

LEMMA LatestType ==
    ASSUME NEW w \in Windows, spec[w] \in Specs \union {None}, stored[w] \in Status
    PROVE  /\ Latest(w) \in View \union {None}
           /\ Latest(w) = None <=> spec[w] = None
           /\ spec[w] # None => /\ Latest(w).spec = spec[w]
                                /\ Latest(w).status = stored[w]
BY NoneAssumption DEF Latest, View

\* A pass that goes on to read or to write is one.
LEMMA ReadingType ==
    ASSUME TypeOK, NEW w \in Windows, seen[w] # None,
           NEW stage \in {"nodes", "write"}, NEW status \in Status, NEW blockers \in Seq(Exempt)
    PROVE  /\ Reading(w, stage, status, blockers) \in Pass
           /\ Reading(w, stage, status, blockers) # None
<1>1. current[w] \in BOOLEAN
  BY DEF TypeOK
<1>2. Reading(w, stage, status, blockers) \in Pass
  BY <1>1, SeenType DEF Reading, Pass
<1> QED BY <1>2, NoneAssumption

LEMMA NoStatusType == NoStatus \in Status
BY DEF NoStatus, Status, Phases

LEMMA InitTypeOK == Init => TypeOK
<1> SUFFICES ASSUME Init PROVE TypeOK
  OBVIOUS
<1>1. \A w \in Windows : Latest(w) \in View \union {None}
  BY NoStatusType, LatestType DEF Init
<1>2. /\ stored \in [Windows -> Status] /\ seen \in [Windows -> View \union {None}]
      /\ spec \in [Windows -> Specs \union {None}]
  BY <1>1, NoStatusType DEF Init
<1>3. /\ verdict \in [Windows -> Phases \ {""}]
      /\ standing \in [Deployments -> SUBSET {"lowered", "manual", "hpa"}]
      /\ told \in [Windows -> [answer : Seq(Blockers) \union {None}, odd : BOOLEAN]]
      /\ series \in [Windows -> Series \union {None}]
  BY DEF Init, Phases
<1>4. pods \in [Pods -> PodType]
  BY DEF Init, PodType, PodPhases
<1>5. budgets \in [Budgets -> BudgetType] /\ nodes \subseteq DOMAIN Nodes
  BY DEF Init, BudgetType
<1>6. disturbances \in 0 .. MaxDisturbances
  BY BoundAssumption DEF Init
<1>7. /\ current \in [Windows -> BOOLEAN] /\ queued \in [Windows -> BOOLEAN]
      /\ waiting \in [Windows -> BOOLEAN] /\ failed \in [Windows -> BOOLEAN]
      /\ pass \in Pass \union {None}
      /\ gauges \in [workers : Nat, drainable : Nat] \union {None}
  BY DEF Init
<1> QED BY <1>2, <1>3, <1>4, <1>5, <1>6, <1>7 DEF TypeOK

LEMMA SaySomethingType ==
    ASSUME TypeOK, NEW w \in Windows, SaySomething(w) \/ UNCHANGED told
    PROVE  /\ told' \in [Windows -> [answer : Seq(Blockers) \union {None}, odd : BOOLEAN]]
           /\ \A v \in Windows : told'[v].answer = told[v].answer
<1> DEFINE Word == [answer : Seq(Blockers) \union {None}, odd : BOOLEAN]
<1>1. told \in [Windows -> Word]
  BY DEF TypeOK
<1>2. CASE UNCHANGED told
  BY <1>1, <1>2
<1>3. CASE SaySomething(w)
  <2> DEFINE other == ~told[w].odd
  <2>1. other \in BOOLEAN
    OBVIOUS
  <2>2. told' = [told EXCEPT ![w] = [@ EXCEPT !.odd = other]]
    BY <1>3 DEF SaySomething
  <2> HIDE DEF other
  <2> QED BY <1>1, <2>1, <2>2
<1> QED BY <1>2, <1>3

LEMMA DisturbType ==
    ASSUME TypeOK, Disturb \/ UNCHANGED disturbances
    PROVE  disturbances' \in 0 .. MaxDisturbances
<1>1. disturbances \in 0 .. MaxDisturbances /\ MaxDisturbances \in Nat
  BY BoundAssumption DEF TypeOK
<1> QED BY <1>1 DEF Disturb

\* What stands in the way of a pass: finitely many workloads, each with its reason.
LEMMA InTheWayType ==
    ASSUME NEW s, NEW phase
    PROVE  InTheWay(s, phase) \subseteq Exempt /\ IsFiniteSet(InTheWay(s, phase))
<1>1. InTheWay(s, phase) \subseteq Exempt
  BY DEF InTheWay, Exempt, Driven, Manual, Scaled
<1>2. IsFiniteSet(Exempt)
  <2>1. IsFiniteSet({"HPA", "manual"})
    <3>1. IsFiniteSet({"HPA"})
      BY FS_Singleton
    <3> QED BY <3>1, FS_AddElement, {"HPA", "manual"} = {"HPA"} \union {"manual"}
  <2> QED BY <2>1, FiniteAssumption, FS_Product DEF Exempt
<1> QED BY <1>1, <1>2, FS_Subset

\* What a pass has read of the workloads goes into a status.
LEMMA SurveyType ==
    ASSUME TypeOK, NEW w \in Windows, Survey(w)
    PROVE  /\ pass' \in Pass /\ pass'.window = w /\ pass'.stage = "nodes"
           /\ pass'.spec = seen[w].spec /\ pass'.fresh = current[w]
           /\ pass'.status.unblocked = seen[w].status.unblocked
           /\ standing' \in [Deployments -> SUBSET {"lowered", "manual", "hpa"}]
<1> DEFINE s      == seen[w].spec
           phase  == verdict[w]
           status == [seen[w].status EXCEPT !.phase = phase,
                         !.skipped = Driven(s) \union Manual(s),
                         !.affected = Affected(s, phase)]
<1>1. PICK order \in Orders(InTheWay(s, phase)) : pass' = Reading(w, "nodes", status, order)
  BY DEF Survey
<1>2. InTheWay(s, phase) \subseteq Exempt /\ IsFiniteSet(InTheWay(s, phase))
  BY InTheWayType
<1>3. order \in Seq(Exempt)
  <2>1. IsFiniteSet(InTheWay(s, phase))
    BY <1>2
  <2>2. order \in Seq(InTheWay(s, phase))
    BY <2>1, OrderType
  <2> QED BY <1>2, <2>2
<1>4. seen[w] # None /\ seen[w].status \in Status
  BY SeenType DEF Survey
<1>5. status \in Status /\ status.unblocked = seen[w].status.unblocked
  <2>1. phase \in Phases
    BY DEF TypeOK
  <2>2. Driven(s) \union Manual(s) \in SUBSET Deployments
    BY DEF Driven, Manual, Scaled
  <2>3. Affected(s, phase) \in SUBSET Deployments
    BY DEF Affected
  <2> QED BY <1>4, <2>1, <2>2, <2>3 DEF Status
<1>6. pass' \in Pass
  BY <1>1, <1>3, <1>4, <1>5, ReadingType
<1>7. standing' \in [Deployments -> SUBSET {"lowered", "manual", "hpa"}]
  <2>1. PICK landed : standing' = [d \in Deployments |->
                  IF d \notin landed THEN standing[d]
                  ELSE (standing[d] \intersect {"hpa"})
                       \union (IF phase = "Asleep" THEN {"lowered"} ELSE {})]
    BY DEF Survey
  <2> QED BY <2>1 DEF TypeOK
<1> QED BY <1>1, <1>5, <1>6, <1>7 DEF Reading

LEMMA SetConditionsType ==
    ASSUME TypeOK, SetConditions
    PROVE  /\ pass' \in Pass /\ pass' # None
           /\ pass'.window = pass.window /\ pass'.stage = "write" /\ pass'.spec = pass.spec
           /\ pass'.fresh = pass.fresh
           /\ told' \in [Windows -> [answer : Seq(Blockers) \union {None}, odd : BOOLEAN]]
           /\ \/ /\ pass'.status.unblocked = pass.status.unblocked
                 /\ told' = told
              \/ told'[pass.window].answer = pass'.status.unblocked
<1> DEFINE w == pass.window
           blocking == Blocking(budgets)
           Word == [answer : Seq(Blockers) \union {None}, odd : BOOLEAN]
<1>1. PICK order \in Orders(blocking) :
          /\ pass' = [pass EXCEPT !.stage = "write",
                         !.status.blockingPDBs = blocking,
                         !.status.observed = pass.spec,
                         !.status.ready = "Reconciled",
                         !.status.unblocked = pass.blockers \o order]
          /\ IF AnswerIsNew(pass.status.unblocked, pass.blockers \o order)
             THEN told' = [told EXCEPT ![w] = [answer |-> pass.blockers \o order, odd |-> ~@.odd]]
             ELSE UNCHANGED told
  BY DEF SetConditions
<1> DEFINE next == pass.blockers \o order
           status == [pass.status EXCEPT !.blockingPDBs = blocking,
                         !.observed = pass.spec, !.ready = "Reconciled", !.unblocked = next]
<1>2. blocking \subseteq Budgets
  BY DEF Blocking, TypeOK
<1>3. next \in Seq(Blockers)
  <2>1. IsFiniteSet(blocking)
    BY <1>2, FiniteAssumption, FS_Subset
  <2>2. order \in Seq(blocking)
    BY <2>1, OrderType
  <2>3. pass.blockers \in Seq(Exempt)
    BY PassType DEF SetConditions, At
  <2> QED BY <1>2, <2>2, <2>3, SeqWithin DEF Blockers
<1>4. pass \in Pass /\ w \in Windows /\ pass.spec \in Specs /\ pass.status \in Status
  BY PassType DEF SetConditions, At
<1>5. status \in Status /\ status.unblocked = next
  <2>1. "Reconciled" \in Reasons
    BY DEF Reasons
  <2>2. status.unblocked = next
    BY <1>4 DEF Status
  <2>3. status \in Status
    BY <1>2, <1>3, <1>4, <2>1 DEF Status
  <2> QED BY <2>2, <2>3
<1>6. pass' = [pass EXCEPT !.stage = "write", !.status = status]
  BY <1>1, <1>4 DEF Pass, Status
<1>7. /\ pass' \in Pass
      /\ pass'.window = w /\ pass'.stage = "write" /\ pass'.spec = pass.spec
      /\ pass'.fresh = pass.fresh /\ pass'.status = status
  <2> HIDE DEF status
  <2> QED BY <1>4, <1>5, <1>6 DEF Pass
<1>8. told \in [Windows -> Word]
  BY DEF TypeOK
<1>9. CASE AnswerIsNew(pass.status.unblocked, next)
  <2> DEFINE other == ~told[w].odd
  <2>1. other \in BOOLEAN
    OBVIOUS
  <2>2. told' = [told EXCEPT ![w] = [answer |-> next, odd |-> other]]
    BY <1>1, <1>9
  <2> HIDE DEF other, next
  <2>3. told' \in [Windows -> Word] /\ told'[w].answer = next
    BY <1>3, <1>4, <1>8, <2>1, <2>2
  <2> QED BY <1>5, <1>7, <2>3, NoneAssumption
<1>10. CASE ~AnswerIsNew(pass.status.unblocked, next)
  <2>1. told' = told /\ pass.status.unblocked = next
    BY <1>1, <1>10 DEF AnswerIsNew
  <2> QED BY <1>5, <1>7, <1>8, <2>1, NoneAssumption
<1> QED BY <1>9, <1>10

LEMMA ListPodsType ==
    ASSUME TypeOK, ListPods
    PROVE  /\ pass' \in Pass /\ pass' # None
           /\ pass'.window = pass.window /\ pass'.stage = "budgets" /\ pass'.spec = pass.spec
           /\ pass'.fresh = pass.fresh
           /\ pass'.status.unblocked = pass.status.unblocked
<1> DEFINE census == Census([n \in pass.nodes |-> Nodes[n]], pods)
           status == [pass.status EXCEPT !.census = census]
<1>1. /\ pass \in Pass /\ pass.status \in Status /\ pass.nodes \in SUBSET DOMAIN Nodes
  BY PassType DEF ListPods, At
<1>2. census \in [workers : Nat, drainable : Nat]
  BY <1>1, CensusType
<1>3. pass' = [pass EXCEPT !.stage = "budgets", !.status.census = census]
  BY DEF ListPods
<1> HIDE DEF census
<1>4. status \in Status /\ status.unblocked = pass.status.unblocked
  BY <1>1, <1>2 DEF Status
<1>5. pass' = [pass EXCEPT !.stage = "budgets", !.status = status]
  BY <1>1, <1>3 DEF Pass, Status
<1> HIDE DEF status
<1>6. /\ pass' \in Pass
      /\ pass'.window = pass.window /\ pass'.stage = "budgets" /\ pass'.spec = pass.spec
      /\ pass'.fresh = pass.fresh /\ pass'.status = status
  BY <1>1, <1>4, <1>5 DEF Pass
<1> QED BY <1>4, <1>6, NoneAssumption

LEMMA ListNodesType ==
    ASSUME TypeOK, ListNodes
    PROVE  /\ pass' \in Pass /\ pass' # None
           /\ pass'.window = pass.window /\ pass'.stage = "pods" /\ pass'.spec = pass.spec
           /\ pass'.fresh = pass.fresh /\ pass'.status = pass.status
<1>1. pass \in Pass /\ nodes \in SUBSET DOMAIN Nodes
  BY PassType DEF ListNodes, At, TypeOK
<1>2. pass' = [pass EXCEPT !.stage = "pods", !.nodes = nodes]
  BY DEF ListNodes
<1>3. pass' \in Pass
  BY <1>1, <1>2 DEF Pass
<1> QED BY <1>1, <1>2, <1>3, NoneAssumption DEF Pass

\* The early ends of a pass and what they write.
LEMMA EarlyType ==
    ASSUME TypeOK, NEW w \in Windows, Suspend(w) \/ Reject(w) \/ MisSelect(w)
    PROVE  /\ pass' \in Pass /\ pass' # None
           /\ pass'.window = w /\ pass'.stage = "write" /\ pass'.spec = seen[w].spec
           /\ pass'.fresh = current[w]
           /\ pass'.status.unblocked = seen[w].status.unblocked
<1>1. seen[w] # None /\ seen[w].status \in Status
  BY SeenType DEF Suspend, Reject, MisSelect
<1>2. PICK status \in Status : /\ pass' = Reading(w, "write", status, <<>>)
                               /\ status.unblocked = seen[w].status.unblocked
  <2> DEFINE suspended == [seen[w].status EXCEPT !.phase = "", !.ready = "Suspended"]
             unread    == [seen[w].status EXCEPT !.ready = "InvalidSchedule"]
             unselect  == [seen[w].status EXCEPT !.ready = "SelectorError"]
  <2>1. suspended \in Status /\ suspended.unblocked = seen[w].status.unblocked
    BY <1>1 DEF Status, Phases, Reasons
  <2>2. unread \in Status /\ unread.unblocked = seen[w].status.unblocked
    BY <1>1 DEF Status, Reasons
  <2>3. unselect \in Status /\ unselect.unblocked = seen[w].status.unblocked
    BY <1>1 DEF Status, Reasons
  <2>4. \/ pass' = Reading(w, "write", suspended, <<>>)
        \/ pass' = Reading(w, "write", unread, <<>>)
        \/ pass' = Reading(w, "write", unselect, <<>>)
    BY DEF Suspend, Reject, MisSelect
  <2> QED BY <2>1, <2>2, <2>3, <2>4
<1>3. <<>> \in Seq(Exempt)
  OBVIOUS
<1>4. pass' \in Pass /\ pass' # None
  BY <1>1, <1>2, <1>3, ReadingType
<1> QED BY <1>2, <1>4 DEF Reading

LEMMA WrittenType ==
    ASSUME TypeOK, pass # None, NEW stores, Written(stores)
    PROVE  stored' \in [Windows -> Status] /\ current' \in [Windows -> BOOLEAN]
BY PassType DEF Written, TypeOK

LEMMA MirrorType ==
    ASSUME NEW status \in Status
    PROVE  Mirror(status) \in Series
<1>1. (status.phase = "Asleep") \in BOOLEAN
  OBVIOUS
<1>2. /\ status.affected \in SUBSET Deployments /\ status.skipped \in SUBSET Deployments
      /\ status.blockingPDBs \in SUBSET Budgets
  BY DEF Status
<1> DEFINE asleep == status.phase = "Asleep"
<1>3. Mirror(status) = [asleep |-> asleep, scaled |-> status.affected,
                        blocked |-> status.skipped, blockingPDBs |-> status.blockingPDBs]
  BY DEF Mirror
<1> HIDE DEF asleep
<1>4. asleep \in BOOLEAN
  BY DEF asleep
<1> QED BY <1>2, <1>3, <1>4 DEF Series

LEMMA EndInErrorType ==
    ASSUME TypeOK, pass # None, EndInError
    PROVE  /\ pass' = None
           /\ waiting' \in [Windows -> BOOLEAN] /\ failed' \in [Windows -> BOOLEAN]
           /\ failed'[pass.window] = TRUE
           /\ \A v \in Windows : v # pass.window => failed'[v] = failed[v]
BY PassType DEF EndInError, TypeOK

LEMMA WriteStatusType ==
    ASSUME TypeOK, WriteStatus
    PROVE  /\ pass' \in Pass \union {None}
           /\ pass' # None =>
                /\ pass'.window = pass.window /\ pass'.stage = "publish"
                /\ pass'.spec = pass.spec /\ pass'.fresh = pass.fresh
                /\ pass'.status = pass.status
                /\ Managed(pass.spec) /\ pass.spec.selects /\ failed' = failed
           /\ pass' = None =>
                \/ ~Managed(pass.spec) /\ \A v \in Windows : v # pass.window => failed'[v] = failed[v]
                \/ EndInError
           /\ waiting' \in [Windows -> BOOLEAN] /\ failed' \in [Windows -> BOOLEAN]
<1>1. pass # None /\ pass \in Pass /\ pass.window \in Windows
  BY PassType DEF WriteStatus, At
<1>2. CASE ~Managed(pass.spec)
  BY <1>1, <1>2 DEF WriteStatus, TypeOK
<1>3. CASE Managed(pass.spec) /\ ~pass.spec.selects
  <2>1. EndInError
    BY <1>3 DEF WriteStatus
  <2> QED BY <1>1, <2>1, EndInErrorType
<1>4. CASE Managed(pass.spec) /\ pass.spec.selects
  <2>1. /\ pass' = [pass EXCEPT !.stage = "publish"]
        /\ waiting' = waiting /\ failed' = failed
    BY <1>4 DEF WriteStatus
  <2>2. pass' \in Pass
    BY <1>1, <2>1 DEF Pass
  <2> QED BY <1>1, <1>4, <2>1, <2>2, NoneAssumption DEF TypeOK, Pass
<1> QED BY <1>2, <1>3, <1>4

\* An edit is a declaration, a deletion or another spec; the pass about the window
\* has read what is no longer so.
LEMMA EditSpecType ==
    ASSUME TypeOK, NEW w \in Windows, EditSpec(w)
    PROVE  /\ spec' \in [Windows -> Specs \union {None}]
           /\ stored' \in [Windows -> Status] /\ current' \in [Windows -> BOOLEAN]
           /\ stored'[w].unblocked = stored[w].unblocked \/ stored'[w].unblocked = None
           /\ \A v \in Windows : v # w => /\ spec'[v] = spec[v] /\ stored'[v] = stored[v]
                                          /\ current'[v] = current[v]
           /\ current'[w] = FALSE
           /\ pass' \in Pass \union {None}
           /\ pass' = None <=> pass = None
           /\ pass # None => /\ pass'.window = pass.window /\ pass'.stage = pass.stage
                             /\ pass'.spec = pass.spec /\ pass'.status = pass.status
                             /\ pass'.fresh = (pass.fresh /\ pass.window # w)
<1>1. spec' \in [Windows -> Specs \union {None}] /\ \A v \in Windows : v # w => spec'[v] = spec[v]
  <2>1. PICK s \in Specs \union {None} : spec' = [spec EXCEPT ![w] = s]
    BY DEF EditSpec
  <2>2. spec \in [Windows -> Specs \union {None}]
    BY DEF TypeOK
  <2> QED BY <2>1, <2>2
<1>2. stored' = [stored EXCEPT ![w] = IF spec[w] = None \/ spec'[w] = None THEN NoStatus ELSE @]
      /\ current' = [current EXCEPT ![w] = FALSE]
  BY DEF EditSpec
<1>3. /\ stored' \in [Windows -> Status] /\ current' \in [Windows -> BOOLEAN]
      /\ stored'[w] = NoStatus \/ stored'[w] = stored[w]
      /\ \A v \in Windows : v # w => stored'[v] = stored[v] /\ current'[v] = current[v]
      /\ current'[w] = FALSE
  BY <1>2, NoStatusType DEF TypeOK
<1>4. NoStatus.unblocked = None
  BY DEF NoStatus
<1>5. CASE pass # None /\ pass.window = w
  <2>1. pass' = [pass EXCEPT !.fresh = FALSE]
    BY <1>5 DEF EditSpec
  <2>2. pass' \in Pass
    BY <1>5, <2>1, PassType DEF Pass
  <2> QED BY <1>1, <1>3, <1>4, <1>5, <2>1, <2>2, PassType, NoneAssumption DEF Pass
<1>6. CASE pass # None /\ pass.window # w
  <2>1. pass' = pass
    BY <1>6 DEF EditSpec
  <2> QED BY <1>1, <1>3, <1>4, <1>6, <2>1, PassType
<1>7. CASE pass = None
  BY <1>1, <1>3, <1>4, <1>7 DEF EditSpec
<1> QED BY <1>5, <1>6, <1>7

\* Every step keeps the types.
LEMMA NextTypeOK == TypeOK /\ [Next]_vars => TypeOK'
<1> SUFFICES ASSUME TypeOK, [Next]_vars PROVE TypeOK'
  OBVIOUS
<1> USE DEF reports, scene, world
<1>1. ASSUME NEW w \in Windows, Forget(w) PROVE TypeOK'
  BY <1>1 DEF Forget, Take, TypeOK
<1>2. ASSUME NEW w \in Windows, Suspend(w) PROVE TypeOK'
  BY <1>2, EarlyType DEF Suspend, Take, TypeOK
<1>3. ASSUME NEW w \in Windows, Reject(w) PROVE TypeOK'
  <2>1. told' \in [Windows -> [answer : Seq(Blockers) \union {None}, odd : BOOLEAN]]
    BY <1>3, SaySomethingType DEF Reject
  <2> QED BY <1>3, <2>1, EarlyType DEF Reject, Take, TypeOK
<1>4. ASSUME NEW w \in Windows, MisSelect(w) PROVE TypeOK'
  BY <1>4, EarlyType DEF MisSelect, Take, TypeOK
<1>5. ASSUME NEW w \in Windows, Survey(w) PROVE TypeOK'
  <2>1. SaySomething(w) \/ UNCHANGED told
    BY <1>5 DEF Survey
  <2>2. Disturb \/ UNCHANGED disturbances
    BY <1>5 DEF Survey
  <2>3. queued' \in [Windows -> BOOLEAN]
    <3>1. PICK landed : queued' = [v \in Windows |-> landed # {} \/ (queued[v] /\ v # w)]
      BY <1>5 DEF Survey
    <3> QED BY <3>1
  <2>4. UNCHANGED <<spec, waiting, failed, stored, seen, current, series, gauges, verdict,
                    nodes, pods, budgets>>
    BY <1>5 DEF Survey
  <2> QED BY <1>5, <2>1, <2>2, <2>3, <2>4, SurveyType, SaySomethingType, DisturbType DEF TypeOK
<1>6. CASE ListNodes
  BY <1>6, ListNodesType DEF ListNodes, TypeOK
<1>7. CASE ListPods
  BY <1>7, ListPodsType DEF ListPods, TypeOK
<1>8. CASE SetConditions
  BY <1>8, SetConditionsType DEF SetConditions, TypeOK
<1>9. CASE WriteStatus
  <2>1. pass # None /\ Written(Stores(pass))
    BY <1>9 DEF WriteStatus, At
  <2> QED BY <1>9, <2>1, WriteStatusType, WrittenType DEF WriteStatus, TypeOK
<1>10. CASE Publish
  <2>1. pass # None /\ pass.status \in Status /\ pass.window \in Windows
    BY <1>10, PassType DEF Publish, At
  <2>2. series' \in [Windows -> Series \union {None}]
    BY <1>10, <2>1, MirrorType DEF Publish, TypeOK
  <2>3. gauges' \in [workers : Nat, drainable : Nat] \union {None}
    BY <1>10, <2>1 DEF Publish, Status
  <2> QED BY <1>10, <2>1, <2>2, <2>3 DEF Publish, TypeOK
<1>11. ASSUME NEW w \in Windows, Due(w) PROVE TypeOK'
  BY <1>11 DEF Due, TypeOK
<1>12. ASSUME NEW w \in Windows, Deliver(w) PROVE TypeOK'
  <2>1. Latest(w) \in View \union {None}
    BY LatestType DEF TypeOK
  <2> QED BY <1>12, <2>1 DEF Deliver, TypeOK
<1>13. CASE WriteFails
  <2>1. pass # None /\ EndInError
    BY <1>13 DEF WriteFails, At
  <2>2. stored' \in [Windows -> Status] /\ current' \in [Windows -> BOOLEAN]
    BY <1>13, <2>1, WrittenType DEF WriteFails
  <2>3. disturbances' \in 0 .. MaxDisturbances
    BY <1>13, DisturbType DEF WriteFails
  <2> QED BY <1>13, <2>1, <2>2, <2>3, EndInErrorType DEF WriteFails, TypeOK
<1>14. CASE ListFails
  <2>1. pass # None /\ EndInError
    BY <1>14 DEF ListFails, At
  <2>2. disturbances' \in 0 .. MaxDisturbances
    BY <1>14, DisturbType DEF ListFails
  <2> QED BY <1>14, <2>1, <2>2, EndInErrorType DEF ListFails, TypeOK
<1>15. CASE Crash
  <2>1. seen' \in [Windows -> View \union {None}]
    BY <1>15, LatestType DEF Crash, TypeOK
  <2>2. disturbances' \in 0 .. MaxDisturbances
    BY <1>15, DisturbType DEF Crash
  <2>3. /\ queued' \in [Windows -> BOOLEAN] /\ current' \in [Windows -> BOOLEAN]
        /\ waiting' \in [Windows -> BOOLEAN] /\ failed' \in [Windows -> BOOLEAN]
    BY <1>15 DEF Crash
  <2> QED BY <1>15, <2>1, <2>2, <2>3 DEF Crash, TypeOK
<1>16. ASSUME NEW w \in Windows, ReadFails(w) PROVE TypeOK'
  <2>1. disturbances' \in 0 .. MaxDisturbances
    BY <1>16, DisturbType DEF ReadFails
  <2> QED BY <1>16, <2>1 DEF ReadFails, Take, TypeOK
<1>17. ASSUME NEW w \in Windows, EditSpec(w) PROVE TypeOK'
  <2>1. disturbances' \in 0 .. MaxDisturbances
    BY <1>17, DisturbType DEF EditSpec
  <2> QED BY <1>17, <2>1, EditSpecType DEF EditSpec, TypeOK
<1>18. ASSUME NEW w \in Windows, Boundary(w) PROVE TypeOK'
  <2>1. disturbances' \in 0 .. MaxDisturbances
    BY <1>18, DisturbType DEF Boundary
  <2>2. verdict' \in [Windows -> Phases \ {""}]
    BY <1>18 DEF Boundary, TypeOK
  <2> QED BY <1>18, <2>1, <2>2 DEF Boundary, TypeOK
<1>19. ASSUME NEW d \in Deployments, ScaleByHand(d) PROVE TypeOK'
  <2>1. disturbances' \in 0 .. MaxDisturbances
    BY <1>19, DisturbType DEF ScaleByHand
  <2>2. standing' \in [Deployments -> SUBSET {"lowered", "manual", "hpa"}]
    BY <1>19 DEF ScaleByHand, TypeOK
  <2> QED BY <1>19, <2>1, <2>2 DEF ScaleByHand, TypeOK
<1>20. ASSUME NEW d \in Deployments, ToggleHPA(d) PROVE TypeOK'
  <2>1. disturbances' \in 0 .. MaxDisturbances
    BY <1>20, DisturbType DEF ToggleHPA
  <2>2. standing' \in [Deployments -> SUBSET {"lowered", "manual", "hpa"}]
    BY <1>20 DEF ToggleHPA, TypeOK
  <2> QED BY <1>20, <2>1, <2>2 DEF ToggleHPA, TypeOK
<1>21. CASE ChangeNodes
  <2>1. disturbances' \in 0 .. MaxDisturbances
    BY <1>21, DisturbType DEF ChangeNodes
  <2> QED BY <1>21, <2>1 DEF ChangeNodes, TypeOK
<1>22. ASSUME NEW p \in Pods, ChangePod(p) PROVE TypeOK'
  <2>1. disturbances' \in 0 .. MaxDisturbances
    BY <1>22, DisturbType DEF ChangePod
  <2>2. PICK pod \in PodType : pods' = [pods EXCEPT ![p] = pod]
    BY <1>22 DEF ChangePod
  <2>3. pods' \in [Pods -> PodType]
    BY <2>2 DEF TypeOK
  <2> QED BY <1>22, <2>1, <2>3 DEF ChangePod, TypeOK
<1>23. ASSUME NEW b \in Budgets, ChangeBudget(b) PROVE TypeOK'
  <2>1. disturbances' \in 0 .. MaxDisturbances
    BY <1>23, DisturbType DEF ChangeBudget
  <2>2. budgets' \in [Budgets -> BudgetType]
    <3>1. PICK allowed \in 0 .. 1, healthy \in 0 .. 1 :
              budgets' = [budgets EXCEPT ![b] = [allowed |-> allowed, healthy |-> healthy]]
      BY <1>23 DEF ChangeBudget
    <3>2. [allowed |-> allowed, healthy |-> healthy] \in BudgetType
      BY DEF BudgetType
    <3> QED BY <3>1, <3>2 DEF TypeOK
  <2> QED BY <1>23, <2>1, <2>2 DEF ChangeBudget, TypeOK
<1>24. CASE UNCHANGED vars
  BY <1>24 DEF vars, TypeOK
<1> QED BY <1>1, <1>2, <1>3, <1>4, <1>5, <1>6, <1>7, <1>8, <1>9, <1>10, <1>11, <1>12,
           <1>13, <1>14, <1>15, <1>16, <1>17, <1>18, <1>19, <1>20, <1>21, <1>22, <1>23,
           <1>24 DEF Next, System, Environment, Begin, Proceed

\* Every reachable state is well typed.
THEOREM TypeCorrect == Spec => []TypeOK
<1> QED BY InitTypeOK, NextTypeOK, PTL DEF Spec

-----------------------------------------------------------------------------
(* Why the reports agree.                                                   *)

LEMMA InitReportInv == Init => ReportInv
<1> SUFFICES ASSUME Init PROVE ReportInv
  OBVIOUS
<1>1. \A w \in Windows : current[w] => seen[w] = Latest(w)
  BY DEF Init
<1>2. PassInv
  BY DEF Init, PassInv
<1>3. ASSUME NEW w \in Windows PROVE RestInv(w)
  BY DEF Init, RestInv, Undisturbed
<1> QED BY <1>1, <1>2, <1>3 DEF ReportInv

\* A window's copy and its series stand where the step is about something else.
LEMMA CopyStays ==
    ASSUME NEW w \in Windows, current[w] => seen[w] = Latest(w),
           spec'[w] = spec[w], stored'[w] = stored[w], seen'[w] = seen[w],
           current'[w] => current[w]
    PROVE  current'[w] => seen'[w] = Latest(w)'
BY DEF Latest

LEMMA RestStays ==
    ASSUME NEW w \in Windows, RestInv(w), Undisturbed(w)' => Undisturbed(w),
           (pass' # None => pass'.window # w) => (pass # None => pass.window # w),
           spec'[w] = spec[w], stored'[w] = stored[w], series'[w] = series[w],
           failed[w] => failed'[w]
    PROVE  RestInv(w)'
BY DEF RestInv

\* So does what the pass in progress has found.
LEMMA PassStays ==
    ASSUME TypeOK, PassInv, pass' = pass,
           pass # None => /\ Undisturbed(pass.window)' => Undisturbed(pass.window)
                          /\ spec'[pass.window] = spec[pass.window]
                          /\ stored'[pass.window] = stored[pass.window]
                          /\ told'[pass.window].answer = told[pass.window].answer
    PROVE  PassInv'
<1>1. CASE pass = None
  BY <1>1 DEF PassInv
<1>2. CASE pass # None
  <2>1. PICK w \in Windows : w = pass.window
    BY <1>2, PassType
  <2>2. (Undisturbed(w)' => Undisturbed(w)) /\ pass'.window = w
    BY <1>2, <2>1
  <2> QED BY <1>2, <2>1, <2>2 DEF PassInv
<1> QED BY <1>1, <1>2

\* No pass is about any window when none is in progress.
LEMMA NoPass == ASSUME pass' = None PROVE PassInv'
BY DEF PassInv

\* A pass begins with what the copy says, which is so while the copy is the latest;
\* no other window is touched.
LEMMA BeginKeeps ==
    ASSUME TypeOK, ReportInv, NEW w \in Windows, pass = None, seen[w] # None,
           pass' \in Pass, pass' # None, pass'.window = w,
           pass'.spec = seen[w].spec, pass'.fresh = current[w], pass'.stage # "publish",
           pass'.status.unblocked = seen[w].status.unblocked,
           \A v \in Windows : v # w /\ ~queued'[v] => ~queued[v],
           UNCHANGED <<spec, failed, stored, seen, current, series>>
    PROVE  ReportInv'
<1>1. current[w] \in BOOLEAN /\ spec[w] \in Specs \union {None} /\ stored[w] \in Status
  BY DEF TypeOK
<1>2. current[w] => /\ spec[w] # None /\ seen[w].spec = spec[w]
                    /\ seen[w].status.unblocked = stored[w].unblocked
  <2>1. current[w] => seen[w] = Latest(w)
    BY DEF ReportInv
  <2> QED BY <1>1, <2>1, LatestType
<1>3. PassInv'
  <2>1. Undisturbed(w)' => current[w]
    BY DEF Undisturbed
  <2> QED BY <1>2, <2>1 DEF PassInv
<1>4. ASSUME NEW v \in Windows PROVE RestInv(v)'
  <2>1. CASE v = w
    BY <2>1 DEF RestInv
  <2>2. CASE v # w
    <3>1. Undisturbed(v)' => Undisturbed(v)
      BY <2>2 DEF Undisturbed
    <3> QED BY <2>2, <3>1, RestStays DEF ReportInv
  <2> QED BY <2>1, <2>2
<1>5. \A v \in Windows : current'[v] => seen'[v] = Latest(v)'
  BY CopyStays DEF ReportInv
<1> QED BY <1>3, <1>4, <1>5 DEF ReportInv

\* The pass goes on to read something else.
LEMMA ProceedKeeps ==
    ASSUME TypeOK, ReportInv, pass # None, pass' # None, pass'.window = pass.window,
           pass'.spec = pass.spec, pass'.fresh = pass.fresh,
           pass.stage \notin {"write", "publish"}, pass'.stage # "publish",
           \/ /\ pass'.status.unblocked = pass.status.unblocked
              /\ told' = told
           \/ /\ pass'.stage = "write"
              /\ told'[pass.window].answer = pass'.status.unblocked,
           UNCHANGED <<spec, queued, failed, stored, seen, current, series>>
    PROVE  ReportInv'
<1>1. PICK w \in Windows : w = pass.window
  BY PassType
<1>2. \A v \in Windows : Undisturbed(v)' <=> Undisturbed(v)
  BY DEF Undisturbed
<1>3. PassInv'
  <2>1. PassInv
    BY DEF ReportInv
  <2>2. Undisturbed(w)' => Undisturbed(w)
    BY <1>2
  <2>3. /\ Undisturbed(w) => spec[w] = pass.spec /\ pass.fresh
        /\ pass.fresh => pass.status.unblocked = stored[w].unblocked
    BY <1>1, <2>1 DEF PassInv
  <2> QED BY <1>1, <2>2, <2>3 DEF PassInv
<1>4. ASSUME NEW v \in Windows PROVE RestInv(v)'
  BY <1>1, <1>2, RestStays DEF ReportInv
<1>5. \A v \in Windows : current'[v] => seen'[v] = Latest(v)'
  BY CopyStays DEF ReportInv
<1> QED BY <1>3, <1>4, <1>5 DEF ReportInv

\* A write makes the copy old, so that the watch brings the window back.
LEMMA WrittenKeeps ==
    ASSUME TypeOK, pass # None, NEW stores \in BOOLEAN, Written(stores)
    PROVE  /\ stores => ~current'[pass.window] /\ stored'[pass.window] = pass.status
           /\ ~stores => stored' = stored /\ current' = current
           /\ \A v \in Windows : v # pass.window =>
                  stored'[v] = stored[v] /\ current'[v] = current[v]
BY PassType DEF Written, TypeOK

\* A pass that ends in an error, or with a spec that is not managed, leaves nothing to
\* show of its window but that the window is there.
LEMMA EndsKeeps ==
    ASSUME TypeOK, ReportInv, pass # None, pass' = None, NEW stores \in BOOLEAN, Written(stores),
           failed'[pass.window] \/ ~Managed(pass.spec),
           \A v \in Windows : v # pass.window => failed'[v] = failed[v],
           UNCHANGED <<spec, queued, seen, series>>
    PROVE  ReportInv'
<1>1. PICK w \in Windows : w = pass.window /\ pass.spec # None
  BY PassType
<1>2. ASSUME NEW v \in Windows, Undisturbed(v)'
      PROVE  Undisturbed(v) /\ stored'[v] = stored[v]
  BY <1>2, WrittenKeeps DEF Undisturbed
<1>3. ASSUME NEW v \in Windows PROVE RestInv(v)'
  <2>1. CASE v = w
    <3>1. Undisturbed(w)' => spec[w] = pass.spec
      BY <1>1, <1>2 DEF ReportInv, PassInv
    <3> QED BY <1>1, <2>1, <3>1 DEF RestInv
  <2>2. CASE v # w
    <3>1. stored'[v] = stored[v] /\ failed'[v] = failed[v]
      BY <1>1, <2>2, WrittenKeeps
    <3> QED BY <1>1, <1>2, <2>2, <3>1, RestStays DEF ReportInv
  <2> QED BY <2>1, <2>2
<1>4. ASSUME NEW v \in Windows, current'[v] PROVE seen'[v] = Latest(v)'
  <2>1. current[v] /\ stored'[v] = stored[v]
    BY <1>4, WrittenKeeps
  <2> QED BY <1>4, <2>1, CopyStays DEF ReportInv
<1>5. PassInv'
  BY NoPass
<1> QED BY <1>3, <1>4, <1>5 DEF ReportInv

\* A pass that goes on to publish has written what is stored, or will be repeated.
LEMMA WriteStatusKeeps ==
    ASSUME TypeOK, ReportInv, WriteStatus
    PROVE  ReportInv'
<1>1. /\ pass # None /\ pass.stage = "write" /\ Written(Stores(pass)) /\ Stores(pass) \in BOOLEAN
      /\ UNCHANGED <<spec, queued, seen, series, told>>
  <2>1. pass.fresh \in BOOLEAN /\ pass # None
    BY PassType DEF WriteStatus, At
  <2> QED BY <2>1 DEF WriteStatus, At, Stores
<1>2. CASE pass' = None
  <2>1. failed'[pass.window] \/ ~Managed(pass.spec)
    BY <1>1, <1>2, WriteStatusType, EndInErrorType
  <2>2. \A v \in Windows : v # pass.window => failed'[v] = failed[v]
    BY <1>1, <1>2, WriteStatusType, EndInErrorType
  <2> QED BY <1>1, <1>2, <2>1, <2>2, EndsKeeps
<1>3. CASE pass' # None
  <2>1. PICK w \in Windows : w = pass.window
    BY <1>1, PassType
  <2>2. /\ pass'.window = w /\ pass'.stage = "publish" /\ pass'.spec = pass.spec
        /\ pass'.fresh = pass.fresh /\ pass'.status = pass.status /\ failed' = failed
    BY <1>3, <2>1, WriteStatusType
  <2>3. ASSUME NEW v \in Windows, Undisturbed(v)'
        PROVE  Undisturbed(v) /\ stored'[v] = stored[v]
    BY <1>1, <2>3, WrittenKeeps DEF Undisturbed
  <2>4. PassInv'
    <3>1. ASSUME Undisturbed(w)'
          PROVE  spec[w] = pass.spec /\ pass.fresh /\ pass.status = stored'[w]
      <4>1. Undisturbed(w) /\ stored'[w] = stored[w] /\ ~Stores(pass)
        BY <1>1, <2>1, <2>3, <3>1, WrittenKeeps DEF Undisturbed
      <4>2. spec[w] = pass.spec /\ pass.fresh
        BY <1>1, <2>1, <4>1 DEF ReportInv, PassInv
      <4> QED BY <2>1, <4>1, <4>2 DEF Stores
    <3> QED BY <1>1, <2>2, <3>1 DEF PassInv
  <2>5. ASSUME NEW v \in Windows PROVE RestInv(v)'
    <3>1. CASE v = w
      BY <1>3, <2>2, <3>1 DEF RestInv
    <3>2. CASE v # w
      <4>1. stored'[v] = stored[v]
        BY <1>1, <2>1, <3>2, WrittenKeeps
      <4> QED BY <1>1, <2>1, <2>2, <2>3, <3>2, <4>1, RestStays DEF ReportInv
    <3> QED BY <3>1, <3>2
  <2>6. ASSUME NEW v \in Windows, current'[v] PROVE seen'[v] = Latest(v)'
    <3>1. current[v] /\ stored'[v] = stored[v]
      BY <1>1, <2>6, WrittenKeeps
    <3> QED BY <1>1, <2>6, <3>1, CopyStays DEF ReportInv
  <2> QED BY <2>4, <2>5, <2>6 DEF ReportInv
<1> QED BY <1>2, <1>3

\* What a pass publishes is what is stored, unless the window will be back.
LEMMA PublishKeeps ==
    ASSUME TypeOK, ReportInv, Publish
    PROVE  ReportInv'
<1>1. PICK w \in Windows : w = pass.window /\ pass # None /\ pass.spec # None
  BY PassType DEF Publish, At
<1>2. /\ series' = [series EXCEPT ![w] = Mirror(pass.status)]
      /\ failed' = [failed EXCEPT ![w] = FALSE] /\ pass' = None
      /\ pass.stage = "publish"
      /\ UNCHANGED <<spec, queued, stored, seen, current, told>>
  BY <1>1 DEF Publish, At
<1>3. \A v \in Windows : Undisturbed(v)' <=> Undisturbed(v)
  BY <1>2 DEF Undisturbed
<1>4. ASSUME NEW v \in Windows PROVE RestInv(v)'
  <2>1. CASE v = w
    <3>1. Undisturbed(w) => spec[w] = pass.spec /\ pass.status = stored[w]
      BY <1>1, <1>2 DEF ReportInv, PassInv
    <3>2. series'[w] = Mirror(pass.status)
      BY <1>2 DEF TypeOK
    <3>3. Mirror(stored[w])' = Mirror(stored[w])
      BY <1>2 DEF Mirror
    <3> QED BY <1>1, <1>2, <1>3, <2>1, <3>1, <3>2, <3>3 DEF RestInv
  <2>2. CASE v # w
    <3>1. series'[v] = series[v] /\ failed'[v] = failed[v]
      BY <1>2, <2>2 DEF TypeOK
    <3> QED BY <1>1, <1>2, <1>3, <2>2, <3>1, RestStays DEF ReportInv
  <2> QED BY <2>1, <2>2
<1>5. \A v \in Windows : current'[v] => seen'[v] = Latest(v)'
  BY <1>2, CopyStays DEF ReportInv
<1> QED BY <1>2, <1>4, <1>5, NoPass DEF ReportInv

\* The pass that finds the window gone removes its series.
LEMMA ForgetKeeps ==
    ASSUME TypeOK, ReportInv, NEW w \in Windows, Forget(w)
    PROVE  ReportInv'
<1>1. /\ pass = None /\ seen[w] = None
      /\ queued' = [queued EXCEPT ![w] = FALSE]
      /\ series' = [series EXCEPT ![w] = None]
      /\ failed' = [failed EXCEPT ![w] = FALSE]
      /\ UNCHANGED <<spec, stored, seen, current, pass, told>>
  BY DEF Forget, Take
<1>2. ASSUME NEW v \in Windows PROVE RestInv(v)'
  <2>1. CASE v = w
    <3>1. current[w] => spec[w] = None
      <4>1. spec[w] \in Specs \union {None} /\ stored[w] \in Status
        BY DEF TypeOK
      <4> QED BY <1>1, <4>1, LatestType DEF ReportInv
    <3>2. series'[w] = None
      BY <1>1 DEF TypeOK
    <3> QED BY <1>1, <2>1, <3>1, <3>2 DEF RestInv, Undisturbed
  <2>2. CASE v # w
    <3>1. series'[v] = series[v] /\ failed'[v] = failed[v] /\ queued'[v] = queued[v]
      BY <1>1, <2>2 DEF TypeOK
    <3> QED BY <1>1, <3>1, RestStays DEF ReportInv, Undisturbed
  <2> QED BY <2>1, <2>2
<1>3. \A v \in Windows : current'[v] => seen'[v] = Latest(v)'
  BY <1>1, CopyStays DEF ReportInv
<1> QED BY <1>1, <1>2, <1>3, NoPass DEF ReportInv

LEMMA ReadFailsKeeps ==
    ASSUME TypeOK, ReportInv, NEW w \in Windows, ReadFails(w)
    PROVE  ReportInv'
<1>1. /\ pass = None /\ seen[w] # None
      /\ queued' = [queued EXCEPT ![w] = FALSE]
      /\ failed' = [failed EXCEPT ![w] = TRUE]
      /\ UNCHANGED <<spec, stored, seen, current, pass, series, told>>
  BY DEF ReadFails, Take, reports
<1>2. ASSUME NEW v \in Windows PROVE RestInv(v)'
  <2>1. CASE v = w
    <3>1. current[w] => spec[w] # None
      <4>1. spec[w] \in Specs \union {None} /\ stored[w] \in Status
        BY DEF TypeOK
      <4> QED BY <1>1, <4>1, LatestType DEF ReportInv
    <3>2. failed'[w]
      BY <1>1 DEF TypeOK
    <3> QED BY <1>1, <2>1, <3>1, <3>2 DEF RestInv, Undisturbed
  <2>2. CASE v # w
    <3>1. failed'[v] = failed[v] /\ queued'[v] = queued[v]
      BY <1>1, <2>2 DEF TypeOK
    <3> QED BY <1>1, <3>1, RestStays DEF ReportInv, Undisturbed
  <2> QED BY <2>1, <2>2
<1>3. \A v \in Windows : current'[v] => seen'[v] = Latest(v)'
  BY <1>1, CopyStays DEF ReportInv
<1> QED BY <1>1, <1>2, <1>3, NoPass DEF ReportInv

\* A step that leaves the reports alone, and may enqueue windows.
LEMMA OtherKeeps ==
    ASSUME TypeOK, ReportInv, UNCHANGED <<spec, failed, reports>>,
           \A v \in Windows : queued[v] => queued'[v]
    PROVE  ReportInv'
<1>1. \A v \in Windows : Undisturbed(v)' => Undisturbed(v)
  BY DEF Undisturbed, reports
<1>2. ASSUME NEW v \in Windows PROVE RestInv(v)'
  BY <1>1, RestStays DEF ReportInv, reports
<1>3. PassInv'
  <2>1. PassInv /\ UNCHANGED <<pass, spec, stored, told>>
    BY DEF ReportInv, reports
  <2>2. pass # None => (Undisturbed(pass.window)' => Undisturbed(pass.window))
    <3>1. UNCHANGED pass /\ (pass # None => pass.window \in Windows)
      BY <2>1, PassType
    <3>2. pass # None => \E w \in Windows : w = pass.window
      BY <3>1
    <3> QED BY <1>1, <3>1, <3>2
  <2> QED BY <2>1, <2>2, PassStays
<1>4. \A v \in Windows : current'[v] => seen'[v] = Latest(v)'
  BY CopyStays DEF ReportInv, reports
<1> QED BY <1>2, <1>3, <1>4 DEF ReportInv

\* The watch brings the copy up to date and the window into the queue.
LEMMA DeliverKeeps ==
    ASSUME TypeOK, ReportInv, NEW w \in Windows, Deliver(w)
    PROVE  ReportInv'
<1>1. /\ seen' = [seen EXCEPT ![w] = Latest(w)]
      /\ current' = [current EXCEPT ![w] = TRUE]
      /\ queued' = [queued EXCEPT ![w] = TRUE]
      /\ UNCHANGED <<spec, failed, stored, pass, series, told>>
  BY DEF Deliver
<1>2. ASSUME NEW v \in Windows PROVE Undisturbed(v)' => Undisturbed(v)
  BY <1>1 DEF Undisturbed, TypeOK
<1>3. ASSUME NEW v \in Windows PROVE RestInv(v)'
  BY <1>1, <1>2, RestStays DEF ReportInv
<1>4. PassInv'
  <2>1. PassInv
    BY DEF ReportInv
  <2>2. pass # None => (Undisturbed(pass.window)' => Undisturbed(pass.window))
    <3>1. UNCHANGED pass /\ (pass # None => \E v \in Windows : v = pass.window)
      BY <1>1, PassType
    <3> QED BY <1>2, <3>1
  <2> QED BY <1>1, <2>1, <2>2, PassStays
<1>5. ASSUME NEW v \in Windows, current'[v] PROVE seen'[v] = Latest(v)'
  <2>1. CASE v = w
    BY <1>1, <2>1 DEF Latest, TypeOK
  <2>2. CASE v # w
    <3>1. seen'[v] = seen[v] /\ current'[v] = current[v]
      BY <1>1, <2>2 DEF TypeOK
    <3> QED BY <1>1, <1>5, <3>1, CopyStays DEF ReportInv
  <2> QED BY <2>1, <2>2
<1> QED BY <1>3, <1>4, <1>5 DEF ReportInv

\* A new process has every window there is before it.
LEMMA CrashKeeps == ASSUME TypeOK, Crash PROVE ReportInv'
<1>1. /\ pass' = None /\ series' = [w \in Windows |-> None]
      /\ seen' = [w \in Windows |-> Latest(w)]
      /\ queued' = [w \in Windows |-> spec[w] # None]
      /\ UNCHANGED <<spec, stored>>
  BY DEF Crash
<1>2. ASSUME NEW w \in Windows PROVE RestInv(w)'
  BY <1>1 DEF RestInv, Undisturbed
<1>3. \A w \in Windows : seen'[w] = Latest(w)'
  BY <1>1 DEF Latest
<1> QED BY <1>1, <1>2, <1>3, NoPass DEF ReportInv

\* The watch will report the edit, and a pass about the window stores nothing any more.
LEMMA EditSpecKeeps ==
    ASSUME TypeOK, ReportInv, NEW w \in Windows, EditSpec(w)
    PROVE  ReportInv'
<1>1. UNCHANGED <<queued, failed, seen, series, told>>
  BY DEF EditSpec
<1>2. ASSUME NEW v \in Windows, Undisturbed(v)' PROVE v # w /\ Undisturbed(v)
  BY <1>1, <1>2, EditSpecType DEF Undisturbed
<1>3. ASSUME NEW v \in Windows PROVE RestInv(v)'
  <2>1. CASE v = w
    BY <1>2, <2>1 DEF RestInv
  <2>2. CASE v # w
    BY <1>1, <1>2, <2>2, EditSpecType, RestStays DEF ReportInv
  <2> QED BY <2>1, <2>2
<1>4. PassInv'
  <2>1. CASE pass = None
    BY <2>1, EditSpecType, NoPass
  <2>2. CASE pass # None
    <3>1. PICK v \in Windows : v = pass.window
      BY <2>2, PassType
    <3>2. /\ pass'.window = v /\ pass'.stage = pass.stage /\ pass'.spec = pass.spec
          /\ pass'.status = pass.status /\ pass'.fresh = (pass.fresh /\ v # w)
      BY <2>2, <3>1, EditSpecType
    <3>3. v # w => spec'[v] = spec[v] /\ stored'[v] = stored[v]
      BY EditSpecType
    <3>4. PassInv
      BY DEF ReportInv
    <3>5. Undisturbed(v)' => v # w /\ Undisturbed(v)
      BY <1>2
    <3> QED BY <1>1, <2>2, <3>1, <3>2, <3>3, <3>4, <3>5 DEF PassInv
  <2> QED BY <2>1, <2>2
<1>5. ASSUME NEW v \in Windows, current'[v] PROVE seen'[v] = Latest(v)'
  BY <1>1, <1>5, EditSpecType, CopyStays DEF ReportInv
<1> QED BY <1>3, <1>4, <1>5 DEF ReportInv

LEMMA NextReportInv == TypeOK /\ TypeOK' /\ ReportInv /\ [Next]_vars => ReportInv'
<1> SUFFICES ASSUME TypeOK, TypeOK', ReportInv, [Next]_vars PROVE ReportInv'
  OBVIOUS
<1>1. ASSUME NEW w \in Windows, Forget(w) PROVE ReportInv'
  BY <1>1, ForgetKeeps
<1>2. ASSUME NEW w \in Windows, Suspend(w) \/ Reject(w) \/ MisSelect(w) PROVE ReportInv'
  <2>1. /\ pass = None /\ seen[w] # None /\ queued' = [queued EXCEPT ![w] = FALSE]
        /\ UNCHANGED <<spec, failed, stored, seen, current, series>>
    BY <1>2 DEF Suspend, Reject, MisSelect, Take
  <2>2. \A v \in Windows : v # w /\ ~queued'[v] => ~queued[v]
    BY <2>1 DEF TypeOK
  <2> QED BY <1>2, <2>1, <2>2, EarlyType, BeginKeeps
<1>3. ASSUME NEW w \in Windows, Survey(w) PROVE ReportInv'
  <2>1. /\ pass = None /\ seen[w] # None
        /\ UNCHANGED <<spec, failed, stored, seen, current, series>>
    BY <1>3 DEF Survey
  <2>2. \A v \in Windows : v # w /\ ~queued'[v] => ~queued[v]
    <3>1. PICK landed : queued' = [v \in Windows |-> landed # {} \/ (queued[v] /\ v # w)]
      BY <1>3 DEF Survey
    <3> QED BY <3>1
  <2> QED BY <1>3, <2>1, <2>2, SurveyType, NoneAssumption, BeginKeeps
<1>4. CASE ListNodes
  <2>1. /\ pass # None /\ pass.stage = "nodes"
        /\ UNCHANGED <<spec, queued, failed, stored, seen, current, series, told>>
    BY <1>4 DEF ListNodes, At
  <2> QED BY <1>4, <2>1, ListNodesType, ProceedKeeps
<1>5. CASE ListPods
  <2>1. /\ pass # None /\ pass.stage = "pods"
        /\ UNCHANGED <<spec, queued, failed, stored, seen, current, series, told>>
    BY <1>5 DEF ListPods, At
  <2> QED BY <1>5, <2>1, ListPodsType, ProceedKeeps
<1>6. CASE SetConditions
  <2>1. /\ pass # None /\ pass.stage = "budgets"
        /\ UNCHANGED <<spec, queued, failed, stored, seen, current, series>>
    BY <1>6 DEF SetConditions, At
  <2> QED BY <1>6, <2>1, SetConditionsType, ProceedKeeps
<1>7. CASE WriteStatus
  BY <1>7, WriteStatusKeeps
<1>8. CASE Publish
  BY <1>8, PublishKeeps
<1>9. ASSUME NEW w \in Windows, Due(w) PROVE ReportInv'
  BY <1>9, OtherKeeps DEF Due, TypeOK
<1>10. ASSUME NEW w \in Windows, Deliver(w) PROVE ReportInv'
  BY <1>10, DeliverKeeps
<1>11. CASE WriteFails
  <2>1. /\ pass # None /\ EndInError /\ UNCHANGED <<spec, queued, seen, series>>
    BY <1>11 DEF WriteFails, At
  <2>2. PICK stores \in BOOLEAN : Written(stores)
    <3>1. Written(Stores(pass)) \/ Written(FALSE)
      BY <1>11 DEF WriteFails
    <3>2. Stores(pass) \in BOOLEAN
      BY <2>1, PassType DEF Stores
    <3> QED BY <3>1, <3>2
  <2> QED BY <2>1, <2>2, EndInErrorType, EndsKeeps
<1>12. CASE ListFails
  <2>1. /\ pass # None /\ EndInError
        /\ UNCHANGED <<spec, queued, stored, seen, current, series>>
    BY <1>12 DEF ListFails, At
  <2>2. Written(FALSE)
    BY <2>1 DEF Written
  <2> QED BY <2>1, <2>2, EndInErrorType, EndsKeeps
<1>13. CASE Crash
  BY <1>13, CrashKeeps
<1>14. ASSUME NEW w \in Windows, ReadFails(w) PROVE ReportInv'
  BY <1>14, ReadFailsKeeps
<1>15. ASSUME NEW w \in Windows, EditSpec(w) PROVE ReportInv'
  BY <1>15, EditSpecKeeps
<1>16. ASSUME NEW d \in Deployments, ScaleByHand(d) PROVE ReportInv'
  BY <1>16, OtherKeeps DEF ScaleByHand, TypeOK
<1>17. CASE \/ ChangeNodes
            \/ \E w \in Windows : Boundary(w)
            \/ \E d \in Deployments : ToggleHPA(d)
            \/ \E p \in Pods : ChangePod(p)
            \/ \E b \in Budgets : ChangeBudget(b)
  <2>1. UNCHANGED <<spec, queued, failed, reports>>
    BY <1>17 DEF ChangeNodes, Boundary, ToggleHPA, ChangePod, ChangeBudget
  <2> QED BY <2>1, OtherKeeps
<1>18. CASE UNCHANGED vars
  BY <1>18, OtherKeeps DEF vars
<1> QED BY <1>1, <1>2, <1>3, <1>4, <1>5, <1>6, <1>7, <1>8, <1>9, <1>10, <1>11, <1>12,
           <1>13, <1>14, <1>15, <1>16, <1>17, <1>18 DEF Next, System, Environment, Begin, Proceed

-----------------------------------------------------------------------------
(* What follows.                                                            *)

\* ReportInv holds in every reachable state.
THEOREM ReportsAgree == Spec => [](TypeOK /\ ReportInv)
<1>1. Init => TypeOK /\ ReportInv
  BY InitTypeOK, InitReportInv
<1>2. TypeOK /\ ReportInv /\ [Next]_vars => TypeOK' /\ ReportInv'
  BY NextTypeOK, NextReportInv
<1> QED BY <1>1, <1>2, PTL DEF Spec

\* The series of a window at rest say what its status says, whatever failed before.
THEOREM SeriesFollowStatus == Spec => []SeriesMirrorStatus
<1>1. TypeOK /\ ReportInv => SeriesMirrorStatus
  BY DEF TypeOK, ReportInv, RestInv, Undisturbed, SeriesMirrorStatus, AtRest
<1> QED BY <1>1, ReportsAgree, PTL

\* The series of a window that is gone, and at rest, are gone.
THEOREM DeletedAreForgotten == Spec => []NoGhostSeries
<1>1. TypeOK /\ ReportInv => NoGhostSeries
  BY DEF TypeOK, ReportInv, RestInv, Undisturbed, NoGhostSeries, AtRest
<1> QED BY <1>1, ReportsAgree, PTL

\* Every answer that a status comes to hold has been announced first.
THEOREM NothingUnannounced == Spec => ChangesAreAnnounced
<1> DEFINE Announced == \A w \in Windows :
               stored'[w].unblocked # stored[w].unblocked /\ stored'[w].unblocked # None
               => told[w].answer = stored'[w].unblocked
<1>1. ASSUME TypeOK, ReportInv, [Next]_vars PROVE Announced \/ UNCHANGED vars
  <2>1. CASE stored' = stored
    BY <2>1
  <2>2. ASSUME NEW w \in Windows, EditSpec(w) PROVE Announced
    BY <1>1, <2>2, EditSpecType
  <2>3. CASE WriteStatus \/ WriteFails
    <3>1. PICK stores \in BOOLEAN :
              Written(stores) /\ (stores => Stores(pass)) /\ pass # None /\ pass.stage = "write"
      <4>1. pass # None /\ pass.stage = "write"
        BY <2>3 DEF WriteStatus, WriteFails, At
      <4>2. Stores(pass) \in BOOLEAN
        BY <1>1, <4>1, PassType DEF Stores
      <4>3. Written(Stores(pass)) \/ Written(FALSE)
        BY <2>3 DEF WriteStatus, WriteFails
      <4> QED BY <4>1, <4>2, <4>3
    <3>2. CASE ~stores
      BY <3>1, <3>2 DEF Written
    <3>3. CASE stores
      <4>1. pass.fresh
        BY <3>1, <3>3 DEF Stores
      <4>2. \/ pass.status.unblocked = stored[pass.window].unblocked
            \/ pass.status.unblocked = told[pass.window].answer
        BY <1>1, <3>1, <4>1 DEF ReportInv, PassInv
      <4>3. /\ stored'[pass.window] = pass.status
            /\ \A v \in Windows : v # pass.window => stored'[v] = stored[v]
        BY <1>1, <3>1, <3>3, WrittenKeeps
      <4> QED BY <4>2, <4>3
    <3> QED BY <3>2, <3>3
  <2>4. CASE Next /\ ~(WriteStatus \/ WriteFails) /\ \A w \in Windows : ~EditSpec(w)
    <3>1. stored' = stored
      BY <2>4 DEF Next, System, Environment, Begin, Proceed, Forget, Suspend, Reject, MisSelect,
                  Survey, ListNodes, ListPods, SetConditions, Publish, Due, Deliver, ListFails,
                  Crash, ReadFails, Boundary, ScaleByHand, ToggleHPA, ChangeNodes, ChangePod,
                  ChangeBudget, reports
    <3> QED BY <2>1, <3>1
  <2> QED BY <1>1, <2>2, <2>3, <2>4
<1>2. TypeOK /\ ReportInv /\ [Next]_vars => [Announced]_vars
  BY <1>1
<1> QED BY <1>2, ReportsAgree, PTL DEF Spec, ChangesAreAnnounced

-----------------------------------------------------------------------------
(* Passes tell the truth.                                                   *)

\* A pod stays what it is, of a DaemonSet or not.
KindInv == \A p \in Pods : pods[p].daemon <=> p \in Daemons

LEMMA KindsStay == Spec => []KindInv
<1>1. ASSUME Init PROVE KindInv
  <2>1. pods = [p \in Pods |-> [node |-> None, phase |-> "Pending", daemon |-> p \in Daemons]]
    BY <1>1 DEF Init
  <2> QED BY <2>1, Zenon DEF KindInv
<1>2. KindInv /\ TypeOK /\ [Next]_vars => KindInv'
  <2> SUFFICES ASSUME KindInv, TypeOK, [Next]_vars PROVE KindInv'
    OBVIOUS
  <2>1. ASSUME NEW p \in Pods, ChangePod(p) PROVE KindInv'
    <3>1. PICK pod \in PodType : pod.daemon = (p \in Daemons) /\ pods' = [pods EXCEPT ![p] = pod]
      BY <2>1 DEF ChangePod
    <3> QED BY <3>1 DEF KindInv, TypeOK
  <2>2. CASE UNCHANGED pods
    BY <2>2 DEF KindInv
  <2>3. pods' = pods \/ \E p \in Pods : ChangePod(p)
    BY DEF Next, System, Environment, Begin, Proceed, Forget, Suspend, Reject, MisSelect, Survey,
           ListNodes, ListPods, SetConditions, WriteStatus, Publish, Due, Deliver, WriteFails,
           ListFails, Crash, ReadFails, EditSpec, Boundary, ScaleByHand, ToggleHPA, ChangeNodes,
           ChangeBudget, vars, world, scene
  <2> QED BY <2>1, <2>2, <2>3
<1> QED BY <1>1, <1>2, TypeCorrect, PTL DEF Spec

\* A listing of a finite set names its members, all of them; and one listing after
\* another names those of both.
LEMMA OrderNames ==
    ASSUME NEW S, IsFiniteSet(S), NEW order \in Orders(S)
    PROVE  Named(order) = S
<1> DEFINE n == Cardinality(S)
<1>1. n \in Nat /\ 1 .. n = 1 .. n
  BY FS_CardinalityType
<1>2. order \in Injection(1 .. n, S)
  BY DEF Orders, Injection, IsInjective
<1>3. Cardinality(1 .. n) = n
  BY <1>1, FS_Interval
<1>4. order \in Surjection(1 .. n, S)
  BY <1>2, <1>3, FS_Injection
<1> QED BY <1>2, <1>4 DEF Named, Surjection, Injection

LEMMA BothNamed ==
    ASSUME NEW U, NEW s \in Seq(U), NEW t \in Seq(U)
    PROVE  Named(s \o t) = Named(s) \union Named(t)
<1>1. ASSUME NEW x \in Named(s \o t) PROVE x \in Named(s) \union Named(t)
  <2>1. PICK i \in 1 .. Len(s) + Len(t) : x = (s \o t)[i]
    BY DEF Named
  <2>2. CASE i <= Len(s)
    BY <2>1, <2>2 DEF Named
  <2>3. CASE i > Len(s)
    BY <2>1, <2>3 DEF Named
  <2> QED BY <2>1, <2>2, <2>3
<1>2. ASSUME NEW x \in Named(s) PROVE x \in Named(s \o t)
  <2>1. PICK i \in 1 .. Len(s) : x = s[i]
    BY <1>2 DEF Named
  <2> QED BY <2>1 DEF Named
<1>3. ASSUME NEW x \in Named(t) PROVE x \in Named(s \o t)
  <2>1. PICK i \in 1 .. Len(t) : x = t[i]
    BY <1>3 DEF Named
  <2>2. Len(s) + i \in 1 .. Len(s) + Len(t) /\ (s \o t)[Len(s) + i] = t[i]
    BY <2>1
  <2> QED BY <2>1, <2>2 DEF Named
<1> QED BY <1>1, <1>2, <1>3

\* The two counts are those of the workers, and of the workers that could be removed.
LEMMA CensusIsTrue ==
    ASSUME TypeOK, KindInv
    PROVE  Census([n \in nodes |-> Nodes[n]], pods)
               = [workers |-> Cardinality(Workers), drainable |-> Cardinality(Removable)]
<1> DEFINE listed     == [n \in nodes |-> Nodes[n]]
           holding(n) == {p \in DOMAIN pods : pods[p].node = n /\ HoldsNode(pods[p])}
           workers    == {n \in DOMAIN listed : IsWorker(listed[n])}
           free       == {n \in workers : Cardinality(holding(n)) = 0}
<1>1. workers = Workers
  BY DEF Workers, IsWorker
<1>2. ASSUME NEW n \in Workers PROVE Cardinality(holding(n)) = 0 <=> Idle(n)
  <2>1. DOMAIN pods = Pods
    BY DEF TypeOK
  <2>2. IsFiniteSet(holding(n))
    <3>1. holding(n) \subseteq Pods
      BY <2>1
    <3> QED BY <3>1, FiniteAssumption, FS_Subset
  <2>3. Cardinality(holding(n)) = 0 <=> holding(n) = {}
    <3> HIDE DEF holding
    <3> QED BY <2>2, FS_EmptySet
  <2>4. holding(n) = {} <=> Idle(n)
    BY <2>1 DEF Idle, HoldsNode, KindInv
  <2> QED BY <2>3, <2>4
<1>3. free = Removable
  BY <1>1, <1>2 DEF Removable
<1>4. Census(listed, pods) = [workers |-> Cardinality(workers), drainable |-> Cardinality(free)]
  BY DEF Census
<1> HIDE DEF workers, free
<1> QED BY <1>1, <1>3, <1>4

LEMMA BlockingIsTrue == ASSUME TypeOK PROVE Blocking(budgets) = Refusing /\ IsFiniteSet(Refusing)
<1>1. Blocking(budgets) = Refusing
  BY DEF Blocking, Refusing, TypeOK
<1>2. Refusing \subseteq Budgets
  BY DEF Refusing
<1> QED BY <1>1, <1>2, FiniteAssumption, FS_Subset

\* What there is to be said of a window stays, while its spec and the scene do.
LEMMA SceneStays ==
    ASSUME NEW w \in Windows, UNCHANGED scene, spec'[w] = spec[w]
    PROVE  /\ verdict' = verdict /\ nodes' = nodes
           /\ Lowered' = Lowered /\ Excepted(w)' = Excepted(w)
           /\ Workers' = Workers /\ Removable' = Removable /\ Refusing' = Refusing
           /\ InTheWay(spec[w], verdict[w])' = InTheWay(spec[w], verdict[w])
           /\ Patches(spec[w], verdict[w])' = Patches(spec[w], verdict[w])
           /\ Steady(w)' = Steady(w)
<1> USE DEF scene
<1>1. Lowered' = Lowered /\ Excepted(w)' = Excepted(w)
  BY DEF Lowered, Excepted
<1>2. Workers' = Workers
  BY DEF Workers
<1>3. Removable' = Removable
  BY <1>2 DEF Removable, Idle
<1>4. Refusing' = Refusing
  BY DEF Refusing
<1>5. InTheWay(spec[w], verdict[w])' = InTheWay(spec[w], verdict[w])
  BY DEF InTheWay, Driven, Manual, Scaled
<1>6. Patches(spec[w], verdict[w])' = Patches(spec[w], verdict[w])
  BY DEF Patches, Driven, Manual, Scaled
<1>7. Steady(w)' = Steady(w)
  BY <1>6 DEF Steady
<1> QED BY <1>1, <1>2, <1>3, <1>4, <1>5, <1>6, <1>7

\* A steady window with its latest spec: its pass begins with what is so.
LEMMA SurveyIsTrue ==
    ASSUME TypeOK, NEW w \in Windows, Steady(w), Survey(w), seen[w].spec = spec[w]
    PROVE  /\ pass' # None /\ OnTrack(w)' /\ pass'.fresh = current[w]
           /\ UNCHANGED <<spec, stored, seen, current, series, scene>>
<1> DEFINE s      == spec[w]
           phase  == verdict[w]
           status == [seen[w].status EXCEPT !.phase = phase,
                         !.skipped = Driven(s) \union Manual(s),
                         !.affected = Affected(s, phase)]
<1>1. PICK order \in Orders(InTheWay(s, phase)) : pass' = Reading(w, "nodes", status, order)
  BY DEF Survey
<1>2. UNCHANGED <<spec, stored, seen, current, series, scene>>
  <2>1. PICK landed \in SUBSET Patches(s, phase) :
            standing' = [d \in Deployments |->
                  IF d \notin landed THEN standing[d]
                  ELSE (standing[d] \intersect {"hpa"})
                       \union (IF phase = "Asleep" THEN {"lowered"} ELSE {})]
    BY DEF Survey
  <2>2. landed = {}
    BY <2>1 DEF Steady
  <2>3. standing' = standing
    BY <2>1, <2>2 DEF TypeOK
  <2> QED BY <2>3 DEF Survey, scene
<1>3. seen[w].status \in Status /\ pass' \in Pass /\ pass' # None
  BY SeenType, SurveyType, NoneAssumption DEF Survey
<1>4. /\ status.phase = phase /\ status.skipped = Driven(s) \union Manual(s)
      /\ status.affected = Affected(s, phase)
  BY <1>3 DEF Status
<1>5. Driven(s) \union Manual(s) = Excepted(w)
  BY DEF Driven, Manual, Scaled, Excepted
<1>6. Affected(s, phase) = Lowered \ Excepted(w)
  <2>1. \A d \in Deployments \ (Driven(s) \union Manual(s)) :
           "lowered" \in standing[d] <=> phase = "Asleep"
    BY DEF Steady, Patches
  <2> QED BY <1>5, <2>1 DEF Affected, Lowered
<1>7. Named(order) = InTheWay(s, phase)
  BY InTheWayType, OrderNames
<1>8. /\ pass'.window = w /\ pass'.stage = "nodes" /\ pass'.spec = s /\ pass'.fresh = current[w]
      /\ pass'.status = status /\ pass'.blockers = order
  BY <1>1 DEF Reading
<1>9. AboutWorkloads(w, pass.status)'
  <2> HIDE DEF status
  <2> QED BY <1>2, <1>4, <1>5, <1>6, <1>8, SceneStays DEF AboutWorkloads
<1>10. (Named(pass.blockers) = InTheWay(spec[w], verdict[w]))'
  BY <1>2, <1>7, <1>8, SceneStays DEF Named
<1>11. OnTrack(w)'
  <2> HIDE DEF status
  <2> QED BY <1>2, <1>8, <1>9, <1>10 DEF OnTrack
<1> QED BY <1>2, <1>3, <1>8, <1>11

\* What two statuses that are both true say on the series is one.
LEMMA OneTruth ==
    ASSUME NEW w \in Windows, NEW a \in Status, NEW b \in Status,
           AboutWorkloads(w, a), AboutWorkloads(w, b), AboutBlockers(w, a), AboutBlockers(w, b)
    PROVE  Mirror(a) = Mirror(b)
BY DEF AboutWorkloads, AboutBlockers, Mirror

\* One true in every respect.
Complete(w, st) == AboutWorkloads(w, st) /\ AboutNodes(st) /\ AboutBlockers(w, st)

\* What is so of the status in a pass stays so, and becomes so of the one it writes.
LEMMA StillTrue ==
    ASSUME NEW w \in Windows, UNCHANGED scene, spec'[w] = spec[w]
    PROVE  /\ pass'.status = pass.status =>
                /\ AboutWorkloads(w, pass.status)' <=> AboutWorkloads(w, pass.status)
                /\ AboutNodes(pass.status)' <=> AboutNodes(pass.status)
                /\ AboutBlockers(w, pass.status)' <=> AboutBlockers(w, pass.status)
           /\ stored'[w] = stored[w] /\ Complete(w, stored[w]) => Complete(w, stored[w])'
           /\ stored'[w] = pass.status /\ Complete(w, pass.status) => Complete(w, stored[w])'
<1> USE SceneStays
<1>1. pass'.status = pass.status =>
                /\ AboutWorkloads(w, pass.status)' <=> AboutWorkloads(w, pass.status)
                /\ AboutNodes(pass.status)' <=> AboutNodes(pass.status)
  BY DEF AboutWorkloads, AboutNodes
<1>2. pass'.status = pass.status =>
                (AboutBlockers(w, pass.status)' <=> AboutBlockers(w, pass.status))
  BY DEF AboutBlockers
<1>3. stored'[w] = stored[w] /\ Complete(w, stored[w]) => Complete(w, stored[w])'
  BY DEF Complete, AboutWorkloads, AboutNodes, AboutBlockers
<1>4. stored'[w] = pass.status /\ Complete(w, pass.status) => Complete(w, stored[w])'
  BY DEF Complete, AboutWorkloads, AboutNodes, AboutBlockers
<1> QED BY <1>1, <1>2, <1>3, <1>4

\* Each further step of the pass finds out what is so.
LEMMA LooksAreTrue ==
    ASSUME TypeOK, KindInv, NEW w \in Windows, OnTrack(w), ListNodes \/ ListPods \/ SetConditions
    PROVE  /\ pass' # None /\ OnTrack(w)' /\ pass'.fresh = pass.fresh
           /\ UNCHANGED <<spec, stored, seen, series, scene>>
<1>1. UNCHANGED <<spec, stored, seen, series, scene>>
  BY DEF ListNodes, ListPods, SetConditions, world
<1>2. /\ pass \in Pass /\ pass # None /\ pass.status \in Status /\ pass.spec \in Specs
      /\ pass.blockers \in Seq(Exempt) /\ pass.nodes \in SUBSET DOMAIN Nodes
  BY PassType DEF ListNodes, ListPods, SetConditions, At
<1>3. CASE ListNodes
  <2>1. pass' = [pass EXCEPT !.stage = "pods", !.nodes = nodes] /\ pass.stage = "nodes"
    BY <1>3 DEF ListNodes, At
  <2>2. /\ pass'.window = pass.window /\ pass'.spec = pass.spec /\ pass'.status = pass.status
        /\ pass'.blockers = pass.blockers /\ pass'.stage = "pods" /\ pass'.nodes = nodes
        /\ pass'.fresh = pass.fresh
    BY <1>2, <2>1 DEF Pass
  <2>3. OnTrack(w)'
    BY <1>1, <2>1, <2>2, SceneStays, StillTrue DEF OnTrack, Named
  <2> QED BY <1>1, <1>3, <2>2, <2>3, ListNodesType
<1>4. CASE ListPods
  <2> DEFINE census == Census([n \in pass.nodes |-> Nodes[n]], pods)
             status == [pass.status EXCEPT !.census = census]
  <2>1. pass.stage = "pods" /\ pass' = [pass EXCEPT !.stage = "budgets", !.status.census = census]
    BY <1>4 DEF ListPods, At
  <2>2. census = [workers |-> Cardinality(Workers), drainable |-> Cardinality(Removable)]
    <3>1. pass.nodes = nodes
      BY <2>1 DEF OnTrack
    <3> QED BY <3>1, CensusIsTrue
  <2> HIDE DEF census
  <2>3. /\ status.census = census /\ status.phase = pass.status.phase
        /\ status.skipped = pass.status.skipped /\ status.affected = pass.status.affected
    BY <1>2 DEF Status
  <2>4. pass' = [pass EXCEPT !.stage = "budgets", !.status = status]
    BY <1>2, <2>1 DEF Pass, Status
  <2> HIDE DEF status
  <2>5. /\ pass'.window = pass.window /\ pass'.spec = pass.spec /\ pass'.status = status
        /\ pass'.blockers = pass.blockers /\ pass'.stage = "budgets" /\ pass'.fresh = pass.fresh
    BY <1>2, <2>4 DEF Pass
  <2>6. AboutWorkloads(w, pass.status)'
    BY <1>1, <2>3, <2>5, SceneStays DEF OnTrack, AboutWorkloads
  <2>7. AboutNodes(pass.status)'
    BY <1>1, <2>2, <2>3, <2>5, SceneStays DEF AboutNodes
  <2>8. OnTrack(w)'
    BY <1>1, <2>1, <2>5, <2>6, <2>7, SceneStays DEF OnTrack, Named
  <2> QED BY <1>1, <1>4, <2>5, <2>8, ListPodsType
<1>5. CASE SetConditions
  <2>1. PICK order \in Orders(Blocking(budgets)) :
            pass' = [pass EXCEPT !.stage = "write",
                           !.status.blockingPDBs = Blocking(budgets),
                           !.status.observed = pass.spec,
                           !.status.ready = "Reconciled",
                           !.status.unblocked = pass.blockers \o order]
    BY <1>5 DEF SetConditions
  <2> DEFINE next   == pass.blockers \o order
             status == [pass.status EXCEPT !.blockingPDBs = Refusing, !.observed = pass.spec,
                                           !.ready = "Reconciled", !.unblocked = next]
  <2>2. Blocking(budgets) = Refusing /\ IsFiniteSet(Refusing)
    BY BlockingIsTrue
  <2>3. Named(next) = Refusing \union InTheWay(spec[w], verdict[w])
    <3>1. Named(order) = Refusing
      BY <2>1, <2>2, OrderNames
    <3>2. Named(pass.blockers) = InTheWay(spec[w], verdict[w])
      BY <1>5 DEF SetConditions, At, OnTrack
    <3>3. order \in Seq(Budgets)
      BY <2>1, <2>2, OrderType DEF Refusing
    <3>4. pass.blockers \in Seq(Blockers) /\ order \in Seq(Blockers)
      BY <1>2, <3>3 DEF Blockers
    <3> QED BY <3>1, <3>2, <3>4, BothNamed
  <2> HIDE DEF next
  <2>4. /\ status.blockingPDBs = Refusing /\ status.observed = pass.spec
        /\ status.ready = "Reconciled" /\ status.unblocked = next
        /\ status.phase = pass.status.phase /\ status.skipped = pass.status.skipped
        /\ status.affected = pass.status.affected /\ status.census = pass.status.census
    BY <1>2 DEF Status
  <2>5. pass' = [pass EXCEPT !.stage = "write", !.status = status]
    BY <1>2, <2>1, <2>2 DEF Pass, Status, next
  <2> HIDE DEF status
  <2>6. /\ pass'.window = pass.window /\ pass'.spec = pass.spec /\ pass'.status = status
        /\ pass'.stage = "write" /\ pass'.fresh = pass.fresh
    BY <1>2, <2>5 DEF Pass
  <2>7. AboutWorkloads(w, pass.status)'
    BY <1>1, <2>4, <2>6, SceneStays DEF OnTrack, AboutWorkloads
  <2>8. AboutNodes(pass.status)'
    <3>1. pass.stage = "budgets"
      BY <1>5 DEF SetConditions, At
    <3> QED BY <1>1, <2>4, <2>6, <3>1, SceneStays DEF OnTrack, AboutNodes
  <2>9. AboutBlockers(w, pass.status)'
    BY <1>1, <2>3, <2>4, <2>6, SceneStays DEF OnTrack, AboutBlockers
  <2>10. OnTrack(w)'
    BY <1>1, <2>6, <2>7, <2>8, <2>9 DEF OnTrack
  <2> QED BY <1>1, <1>5, <2>6, <2>10, SetConditionsType
<1> QED BY <1>3, <1>4, <1>5

\* So what the pass writes, if its write lands, is true, and so is what it publishes.
LEMMA WriteIsTrue ==
    ASSUME TypeOK, NEW w \in Windows, Steady(w), OnTrack(w), WriteStatus
    PROVE  /\ pass' # None /\ OnTrack(w)' /\ pass'.fresh = pass.fresh
           /\ UNCHANGED <<spec, seen, series, scene>>
           /\ Complete(w, pass.status) /\ stored'[w] \in {stored[w], pass.status}
<1>1. /\ pass # None /\ pass.stage = "write" /\ pass.window = w /\ pass.spec = spec[w]
      /\ Written(Stores(pass)) /\ Managed(pass.spec) /\ pass.spec.selects
  BY DEF WriteStatus, At, OnTrack, Steady
<1>2. UNCHANGED <<spec, seen, series, scene>> /\ pass' = [pass EXCEPT !.stage = "publish"]
  BY <1>1 DEF WriteStatus, world
<1>3. /\ pass' # None /\ pass'.fresh = pass.fresh /\ pass'.window = pass.window
      /\ pass'.spec = pass.spec /\ pass'.status = pass.status /\ pass'.stage = "publish"
  <2>1. pass \in Pass
    BY <1>1, PassType
  <2>2. pass' \in Pass
    BY <1>2, <2>1 DEF Pass
  <2> QED BY <1>2, <2>1, <2>2, NoneAssumption DEF Pass
<1>4. /\ AboutWorkloads(w, pass.status) /\ AboutNodes(pass.status)
      /\ AboutBlockers(w, pass.status)
  BY <1>1 DEF OnTrack
<1>5. /\ stored'[w] \in {stored[w], pass.status}
      /\ pass.fresh => stored'[w] = pass.status
  BY <1>1, PassType DEF Written, Stores, TypeOK
<1>6. OnTrack(w)'
  BY <1>1, <1>2, <1>3, <1>4, <1>5, StillTrue DEF OnTrack
<1> QED BY <1>2, <1>3, <1>4, <1>5, <1>6 DEF Complete

LEMMA PublishIsTrue ==
    ASSUME TypeOK, NEW w \in Windows, OnTrack(w), Publish
    PROVE  /\ pass' = None /\ UNCHANGED <<spec, stored, seen, scene>>
           /\ Complete(w, pass.status) /\ series'[w] = Mirror(pass.status)
           /\ pass.fresh => pass.status = stored[w]
BY DEF Publish, At, OnTrack, Complete, world, TypeOK

\* A pass on track stays so until it has told the truth.
LEMMA PassIsTrue ==
    ASSUME TypeOK, KindInv, NEW w \in Windows, System,
           Steady(w), pass # None, pass.fresh, OnTrack(w)
    PROVE  IF pass' # None THEN OnTrack(w)' /\ pass'.fresh ELSE Truthful(w)'
<1>1. CASE ListNodes \/ ListPods \/ SetConditions
  BY <1>1, LooksAreTrue
<1>2. CASE WriteStatus
  BY <1>2, WriteIsTrue
<1>3. CASE Publish
  <2>1. pass' = None /\ stored' = stored /\ Complete(w, stored[w]) /\ series'[w] = Mirror(stored[w])
    BY <1>3, PublishIsTrue
  <2>2. Complete(w, stored[w])'
    BY <1>3, <2>1, PublishIsTrue, StillTrue
  <2> QED BY <2>1, <2>2 DEF Truthful, Complete, Mirror
<1>4. CASE \E v \in Windows : Due(v) \/ Deliver(v)
  <2>1. UNCHANGED <<spec, stored, pass, scene>>
    BY <1>4 DEF Due, Deliver, reports, world
  <2> QED BY <2>1, SceneStays, StillTrue DEF OnTrack, Named
<1>5. ~\E v \in Windows : Begin(v)
  BY DEF Begin, Take, Forget, Suspend, Reject, MisSelect, Survey
<1> QED BY <1>1, <1>2, <1>3, <1>4, <1>5 DEF System, Proceed

\* Steps that are no business of w leave it as it is.
LEMMA OtherStep ==
    ASSUME TypeOK, NEW w \in Windows, Tells(w), UNCHANGED scene, spec' = spec,
           stored'[w] = stored[w], series'[w] = series[w],
           seen'[w] = seen[w] \/ seen'[w] = Latest(w),
           pass' = pass \/ (pass' # None => pass'.window # w)
    PROVE  Tells(w)'
<1>1. Steady(w)' /\ Truthful(w)'
  <2>1. Steady(w)'
    BY SceneStays DEF Tells
  <2>2. Complete(w, stored[w])'
    BY StillTrue DEF Tells, Truthful, Complete
  <2>3. (series[w] = Mirror(stored[w]))'
    BY DEF Tells, Truthful, Mirror
  <2> QED BY <2>1, <2>2, <2>3 DEF Truthful, Complete
<1>2. (seen[w] # None /\ seen[w].spec = spec[w])'
  <2>1. Latest(w) # None /\ Latest(w).spec = spec[w]
    BY LatestType DEF Tells, Steady, Latest, TypeOK
  <2> QED BY <2>1 DEF Tells
<1>3. (pass # None /\ pass.window = w => OnTrack(w))'
  <2>1. CASE pass' = pass /\ pass # None /\ pass.window = w
    BY <2>1, SceneStays, StillTrue DEF Tells, OnTrack, Named
  <2> QED BY <2>1
<1> QED BY <1>1, <1>2, <1>3 DEF Tells

\* Once told, the truth stays told, whatever passes run, as long as none patches.
LEMMA TruthStays ==
    ASSUME TypeOK, KindInv, NEW w \in Windows, System, Tells(w), standing' = standing
    PROVE  Tells(w)'
<1>1. Steady(w) /\ Truthful(w) /\ seen[w] # None /\ seen[w].spec = spec[w]
  BY DEF Tells
<1>2. UNCHANGED <<spec, scene>>
  BY DEF System, Begin, Proceed, Forget, Suspend, Reject, MisSelect, Survey, ListNodes, ListPods,
         SetConditions, WriteStatus, Publish, Due, Deliver, world, reports, scene
<1>3. CASE \E v \in Windows : Due(v) \/ Deliver(v)
  <2>1. UNCHANGED <<stored, series, pass>> /\ seen'[w] \in {seen[w], Latest(w)}
    <3>1. ASSUME NEW v \in Windows, Due(v) PROVE UNCHANGED <<stored, series, pass, seen>>
      BY <3>1 DEF Due, reports
    <3>2. ASSUME NEW v \in Windows, Deliver(v)
          PROVE  UNCHANGED <<stored, series, pass>> /\ seen'[w] \in {seen[w], Latest(w)}
      BY <3>2 DEF Deliver, TypeOK
    <3> QED BY <1>3, <3>1, <3>2
  <2> QED BY <1>2, <2>1, OtherStep
<1>4. ASSUME NEW v \in Windows, Begin(v) PROVE Tells(w)'
  <2>1. CASE v = w
    <3>1. Survey(w)
      BY <1>1, <1>4, <2>1 DEF Begin, Forget, Suspend, Reject, MisSelect, Steady, Managed
    <3>2. OnTrack(w)' /\ UNCHANGED <<stored, seen, series>>
      BY <1>1, <3>1, SurveyIsTrue
    <3>3. Steady(w)' /\ Complete(w, stored[w])'
      BY <1>1, <1>2, <3>2, SceneStays, StillTrue DEF Truthful, Complete
    <3>4. (series[w] = Mirror(stored[w]))'
      BY <1>1, <3>2 DEF Truthful, Mirror
    <3> QED BY <1>1, <1>2, <3>2, <3>3, <3>4 DEF Tells, Truthful, Complete
  <2>2. CASE v # w
    <3>1. /\ stored' = stored /\ seen' = seen /\ series'[w] = series[w]
          /\ pass' # None => pass'.window # w
      <4>1. CASE Forget(v)
        BY <2>2, <4>1 DEF Forget, Take, TypeOK
      <4>2. CASE Suspend(v) \/ Reject(v) \/ MisSelect(v)
        BY <2>2, <4>2, EarlyType DEF Suspend, Reject, MisSelect
      <4>3. CASE Survey(v)
        BY <2>2, <4>3, SurveyType DEF Survey
      <4> QED BY <1>4, <4>1, <4>2, <4>3 DEF Begin
    <3> QED BY <1>2, <3>1, OtherStep
  <2> QED BY <2>1, <2>2
<1>5. CASE Proceed /\ pass.window # w
  <2>1. /\ seen' = seen /\ stored'[w] = stored[w] /\ series'[w] = series[w]
        /\ pass' # None => pass'.window # w
    <3>1. CASE ListNodes \/ ListPods \/ SetConditions
      BY <1>5, <3>1, ListNodesType, ListPodsType, SetConditionsType
      DEF ListNodes, ListPods, SetConditions
    <3>2. CASE WriteStatus
      BY <1>5, <3>2, WriteStatusType DEF WriteStatus, Written, EndInError, TypeOK
    <3>3. CASE Publish
      BY <1>5, <3>3 DEF Publish, TypeOK
    <3> QED BY <1>5, <3>1, <3>2, <3>3 DEF Proceed
  <2> QED BY <1>2, <2>1, OtherStep
<1>6. CASE Proceed /\ pass.window = w
  <2>1. pass # None /\ pass \in Pass /\ pass.status \in Status /\ stored[w] \in Status
    BY <1>6, PassType DEF Proceed, ListNodes, ListPods, SetConditions, WriteStatus, Publish, At,
                          TypeOK
  <2>2. OnTrack(w)
    BY <1>6, <2>1 DEF Tells
  <2>3. /\ seen' = seen
        /\ pass' # None => OnTrack(w)'
        /\ \/ stored'[w] = stored[w]
           \/ Complete(w, pass.status) /\ stored'[w] = pass.status
        /\ \/ series'[w] = series[w]
           \/ Complete(w, pass.status) /\ series'[w] = Mirror(pass.status)
    <3>1. CASE ListNodes \/ ListPods \/ SetConditions
      BY <2>2, <3>1, LooksAreTrue
    <3>2. CASE WriteStatus
      BY <1>1, <2>2, <3>2, WriteIsTrue
    <3>3. CASE Publish
      BY <2>2, <3>3, PublishIsTrue
    <3> QED BY <1>6, <3>1, <3>2, <3>3 DEF Proceed
  <2>4. Complete(w, stored[w]) /\ series[w] = Mirror(stored[w])
    BY <1>1 DEF Truthful, Complete
  <2>5. Steady(w)' /\ Complete(w, stored[w])'
    BY <1>1, <1>2, <2>3, <2>4, SceneStays, StillTrue
  <2>6. Complete(w, pass.status) => Mirror(pass.status) = Mirror(stored[w])
    BY <2>1, <2>4, OneTruth DEF Complete
  <2>7. series'[w] = Mirror(stored'[w])
    BY <2>3, <2>4, <2>6
  <2>8. (series[w] = Mirror(stored[w]))'
    BY <2>7 DEF Mirror
  <2> QED BY <1>1, <1>2, <2>3, <2>5, <2>8 DEF Tells, Truthful, Complete
<1> QED BY <1>3, <1>4, <1>5, <1>6 DEF System

\* An undisturbed pass over a window whose workloads need no patch ends with the truth in
\* status and series, and the truth once told stays told: but for the passes taking place,
\* which only fairness gives, this is why ReportsSettle holds.
THEOREM ReportsRestOnPasses == Spec => PassesTell
<1> DEFINE Tell == \A w \in Windows :
          /\ Steady(w) /\ current[w] /\ Survey(w) => OnTrack(w)' /\ pass'.fresh
          /\ Steady(w) /\ pass # None /\ pass.fresh /\ OnTrack(w) =>
                IF pass' # None THEN OnTrack(w)' /\ pass'.fresh ELSE Truthful(w)'
          /\ Tells(w) /\ UNCHANGED standing => Tells(w)'
<1>1. ASSUME TypeOK, ReportInv, KindInv, System PROVE Tell
  <2>1. ASSUME NEW w \in Windows, Steady(w), current[w], Survey(w)
        PROVE  OnTrack(w)' /\ pass'.fresh
    <3>1. seen[w] = Latest(w) /\ spec[w] # None
      BY <1>1, <2>1 DEF ReportInv, Steady
    <3>2. seen[w].spec = spec[w]
      BY <3>1 DEF Latest
    <3> QED BY <1>1, <2>1, <3>2, SurveyIsTrue
  <2> QED BY <1>1, <2>1, PassIsTrue, TruthStays
<1>2. TypeOK /\ ReportInv /\ KindInv => (System => Tell)
  BY <1>1
<1> QED BY <1>2, ReportsAgree, KindsStay, PTL DEF PassesTell
=============================================================================
