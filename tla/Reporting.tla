------------------------------ MODULE Reporting ------------------------------
(***************************************************************************)
(* What a pass says about what it found, and to whom: the status of the    *)
(* IdleWindow with its two conditions, Events, and the Prometheus series.  *)
(*                                                                         *)
(* The window is read from the informer cache and written back with the    *)
(* resourceVersion that was read: a write that lost to another is dropped, *)
(* but the Events of that pass are out and its series are published.  The  *)
(* series live in the process, the status in the API server; the last      *)
(* Event is all that is kept of what people were told.                     *)
(*                                                                         *)
(* What the pass reads of workloads, nodes, pods and budgets is what the   *)
(* caches hold of them.  Replica counts are left to WorkloadScaling, where *)
(* the workloads' copies lag too; the clock is left to Schedule.           *)
(***************************************************************************)
EXTENDS NodeCensus, Sequences

CONSTANTS
    Windows,       \* names of IdleWindows
    Specs,         \* the specs that may be declared
    Deployments,   \* Deployments that every window selects
    Nodes,         \* Nodes[n]: node n, for the names of the nodes there may be
    Daemons, Pods, \* names of pods, and those that belong to a DaemonSet
    Budgets,       \* names of PodDisruptionBudgets
    MaxDisturbances,  \* bound on the steps of people, cluster, faults and crashes
    None

\* A spec as far as it is reported: spec.suspend, whether the schedule and the
\* selector parse, and what it says of workloads that people or autoscalers have scaled.
SpecType == [suspend : BOOLEAN, readable : BOOLEAN, selects : BOOLEAN,
             hpaPolicy : {"Skip", "Warn", "Scale"}, respectManualScale : BOOLEAN]

ASSUME SpecsAssumption  == Specs \subseteq SpecType /\ None \notin Specs
ASSUME NodesAssumption  == \A n \in DOMAIN Nodes : Nodes[n] \in NodeType
ASSUME PodsAssumption   == Daemons \subseteq Pods
ASSUME FiniteAssumption == /\ IsFiniteSet(Pods) /\ IsFiniteSet(DOMAIN Nodes)
                           /\ IsFiniteSet(Deployments) /\ IsFiniteSet(Budgets)
ASSUME BoundAssumption == MaxDisturbances \in Nat

Phases   == {"", "Awake", "Asleep", "WakeRequested"}
Reasons  == {"Suspended", "InvalidSchedule", "SelectorError", "Reconciled"}

\* What stands in the way: a workload, with why it is passed over, or a budget.
Exempt   == {"HPA", "manual"} \X Deployments
Blockers == Exempt \union Budgets

\* A status.  Sums and counts over workloads and budgets are kept as the sets they are
\* taken over (reclaimed is a sum over those affected, asleep); observedGeneration as the
\* spec of that generation; a condition as its reason or message, None while there is none.
Status == [phase : Phases, skipped : SUBSET Deployments, affected : SUBSET Deployments,
           census : [workers : Nat, drainable : Nat], blockingPDBs : SUBSET Budgets,
           observed : Specs \union {None}, ready : Reasons \union {None},
           unblocked : Seq(Blockers) \union {None}]

NoStatus == [phase |-> "", skipped |-> {}, affected |-> {},
             census |-> [workers |-> 0, drainable |-> 0], blockingPDBs |-> {},
             observed |-> None, ready |-> None, unblocked |-> None]

VARIABLES
    spec,      \* spec[w]: the declared window, or None
    stored,    \* stored[w]: its status in the API server
    seen,      \* seen[w]: the cache's copy of both, or None
    current,   \* current[w]: the copy is the latest version
    queued, waiting, failed,  \* of each window: in the work queue; a delayed add is
                              \* pending; its last pass ended in an error
    pass,      \* the pass in progress, or None
    series,    \* series[w]: the series labelled with w, or None
    gauges,    \* the two unlabelled node gauges
    told,      \* history: told[w].answer is what the last Event said stands in the
               \* way, told[w].odd changes with every Event about w
    verdict,   \* verdict[w]: the phase that the schedule and the requests give
    standing,  \* standing[d]: whether d is lowered, with its size recorded, whether a person
               \* has scaled it since, and whether it has an autoscaler
    nodes, pods, budgets,     \* as the caches hold them
    disturbances   \* how many there have been

reports == <<stored, seen, current, pass, series, gauges, told>>
scene   == <<verdict, standing, nodes, pods, budgets>>
world   == <<scene, disturbances>>
vars    == <<spec, queued, waiting, failed, reports, world>>

Disturb == disturbances < MaxDisturbances /\ disturbances' = disturbances + 1

Pass == [window : Windows, stage : {"nodes", "pods", "budgets", "write", "publish"},
         spec : Specs, status : Status, fresh : BOOLEAN, nodes : SUBSET DOMAIN Nodes,
         blockers : Seq(Exempt)]

Series == [asleep : BOOLEAN, scaled : SUBSET Deployments, blocked : SUBSET Deployments,
           blockingPDBs : SUBSET Budgets]

PodType == [node : DOMAIN Nodes \union {None}, phase : PodPhases, daemon : BOOLEAN]

View == [spec : Specs, status : Status]

ASSUME NoneAssumption == None \notin Pass \union View

TypeOK ==
    /\ spec \in [Windows -> Specs \union {None}]
    /\ stored \in [Windows -> Status]
    /\ seen \in [Windows -> View \union {None}]
    /\ current \in [Windows -> BOOLEAN]
    /\ queued \in [Windows -> BOOLEAN] /\ waiting \in [Windows -> BOOLEAN]
    /\ failed \in [Windows -> BOOLEAN]
    /\ pass \in Pass \union {None}
    /\ series \in [Windows -> Series \union {None}]
    /\ gauges \in [workers : Nat, drainable : Nat] \union {None}
    /\ told \in [Windows -> [answer : Seq(Blockers) \union {None}, odd : BOOLEAN]]
    /\ verdict \in [Windows -> Phases \ {""}]
    /\ standing \in [Deployments -> SUBSET {"lowered", "manual", "hpa"}]
    /\ nodes \subseteq DOMAIN Nodes
    /\ pods \in [Pods -> PodType]
    /\ budgets \in [Budgets -> BudgetType]
    /\ disturbances \in 0 .. MaxDisturbances

\* What a copy of w holds that is the latest.
Latest(w) == IF spec[w] = None THEN None ELSE [spec |-> spec[w], status |-> stored[w]]

Init ==
    /\ spec \in [Windows -> Specs \union {None}]
    /\ stored = [w \in Windows |-> NoStatus]
    /\ seen = [w \in Windows |-> Latest(w)]
    /\ current = [w \in Windows |-> TRUE]
    /\ queued = [w \in Windows |-> spec[w] # None]
    /\ waiting = [w \in Windows |-> FALSE] /\ failed = waiting
    /\ pass = None
    /\ series = [w \in Windows |-> None]
    /\ gauges = None
    /\ told = [w \in Windows |-> [answer |-> None, odd |-> FALSE]]
    /\ verdict = [w \in Windows |-> "Awake"]
    /\ standing = [d \in Deployments |-> {}]
    /\ nodes = DOMAIN Nodes
    /\ pods = [p \in Pods |-> [node |-> None, phase |-> "Pending", daemon |-> p \in Daemons]]
    /\ budgets = [b \in Budgets |-> [allowed |-> 0, healthy |-> 0]]
    /\ disturbances = 0

-----------------------------------------------------------------------------
(* The beginnings of a pass.                                                *)

Take(w) == /\ pass = None /\ queued[w]
           /\ queued' = [queued EXCEPT ![w] = FALSE]

\* The pass goes on to `stage' with the status it will write.
Reading(w, stage, status, blockers) ==
    [window |-> w, stage |-> stage, spec |-> seen[w].spec, status |-> status,
     fresh |-> current[w], nodes |-> {}, blockers |-> blockers]

SaySomething(w) == told' = [told EXCEPT ![w].odd = ~@]

ForgetNothing(w) ==            \* mutant: the series of a deleted window stay
    /\ Take(w) /\ seen[w] = None
    /\ failed' = [failed EXCEPT ![w] = FALSE]
    /\ UNCHANGED <<spec, waiting, reports, world>>

\* The window is gone, and so are its series.
Forget(w) ==
    /\ Take(w) /\ seen[w] = None
    /\ series' = [series EXCEPT ![w] = None]
    /\ failed' = [failed EXCEPT ![w] = FALSE]
    /\ UNCHANGED <<spec, waiting, stored, seen, current, pass, gauges, told, world>>

Suspend(w) ==
    /\ Take(w) /\ seen[w] # None /\ seen[w].spec.suspend
    /\ pass' = Reading(w, "write", [seen[w].status EXCEPT !.phase = "",
                                                          !.ready = "Suspended"], <<>>)
    /\ UNCHANGED <<spec, waiting, failed, stored, seen, current, series, gauges, told, world>>

Reject(w) ==
    /\ Take(w) /\ seen[w] # None /\ ~seen[w].spec.suspend /\ ~seen[w].spec.readable
    /\ pass' = Reading(w, "write", [seen[w].status EXCEPT !.ready = "InvalidSchedule"], <<>>)
    /\ SaySomething(w)
    /\ UNCHANGED <<spec, waiting, failed, stored, seen, current, series, gauges, world>>

Managed(s) == ~s.suspend /\ s.readable

MisSelect(w) ==
    /\ Take(w) /\ seen[w] # None /\ Managed(seen[w].spec) /\ ~seen[w].spec.selects
    /\ pass' = Reading(w, "write", [seen[w].status EXCEPT !.ready = "SelectorError"], <<>>)
    /\ UNCHANGED <<spec, waiting, failed, stored, seen, current, series, gauges, told, world>>

Driven(s)  == {d \in Deployments : "hpa" \in standing[d] /\ s.hpaPolicy # "Scale"}
Scaled     == {d \in Deployments : "manual" \in standing[d]}
Manual(s)  == IF s.respectManualScale THEN Scaled \ Driven(s) ELSE {}
InTheWay(s, phase) == {"HPA"} \X (IF s.hpaPolicy = "Warn" THEN Driven(s) ELSE {})
                      \union {"manual"} \X (IF phase = "Asleep" THEN Manual(s) ELSE {})

\* The orders in which a listing may name the members of S: none is promised.
Orders(S) == {o \in [1 .. Cardinality(S) -> S] :
                 \A i, j \in DOMAIN o : i # j => o[i] # o[j]}

\* Those for which a patch is due: a person's hold on a workload ends awake, or with a
\* window that does not respect it.
Patches(s, phase) ==
    {d \in Deployments \ Driven(s) :
        IF phase = "Asleep"
        THEN d \notin Manual(s) /\ ("lowered" \notin standing[d] \/ d \in Scaled)
        ELSE "lowered" \in standing[d]}

Affected(s, phase) ==
    {d \in Deployments \ (Driven(s) \union Manual(s)) :
        phase = "Asleep" \/ "lowered" \in standing[d]}

\* Schedule, requests, workloads and autoscalers; then the loop over the workloads: a
\* patch that fails has an Event and is passed over; each that lands brings every window
\* back, and has an Event unless it only clears the record.
Survey(w) ==
    /\ pass = None /\ queued[w]
    /\ seen[w] # None /\ Managed(seen[w].spec) /\ seen[w].spec.selects
    /\ LET s       == seen[w].spec
           phase   == verdict[w]
           status  == [seen[w].status EXCEPT !.phase = phase,
                          !.skipped = Driven(s) \union Manual(s),
                          !.affected = Affected(s, phase)]
       IN \E order \in Orders(InTheWay(s, phase)), lost \in SUBSET Patches(s, phase) :
            LET landed == Patches(s, phase) \ lost IN
            /\ IF lost = {} THEN UNCHANGED disturbances ELSE Disturb
            /\ pass' = Reading(w, "nodes", status, order)
            /\ IF \/ seen[w].status.phase # phase
                  \/ lost \union (landed \ Manual(s)) # {}
               THEN SaySomething(w)
               ELSE UNCHANGED told
            /\ standing' = [d \in Deployments |->
                  IF d \notin landed THEN standing[d]
                  ELSE (standing[d] \intersect {"hpa"})
                       \union (IF phase = "Asleep" THEN {"lowered"} ELSE {})]
            /\ queued' = [v \in Windows |-> landed # {} \/ (queued[v] /\ v # w)]
    /\ UNCHANGED <<spec, waiting, failed, stored, seen, current, series, gauges, verdict,
                   nodes, pods, budgets>>

-----------------------------------------------------------------------------
(* The rest of it.                                                          *)

At(stage) == pass # None /\ pass.stage = stage

\* countDrainableNodes lists the nodes first and the pods afterwards.
ListNodes ==
    /\ At("nodes")
    /\ pass' = [pass EXCEPT !.stage = "pods", !.nodes = nodes]
    /\ UNCHANGED <<spec, queued, waiting, failed, stored, seen, current, series, gauges, told,
                   world>>

ListPods ==
    /\ At("pods")
    /\ pass' = [pass EXCEPT !.stage = "budgets",
                   !.status.census = Census([n \in pass.nodes |-> Nodes[n]], pods)]
    /\ UNCHANGED <<spec, queued, waiting, failed, stored, seen, current, series, gauges, told,
                   world>>

\* Mutant: what stood in the way before is not looked at.
AnswerIsNewAlways(previous, next) == TRUE

\* setUnblocked compares status and message with the copy's condition.
AnswerIsNew(previous, next) == previous # next

SetConditions ==
    /\ At("budgets")
    /\ LET w        == pass.window
           blocking == Blocking(budgets)
       IN \E order \in Orders(blocking) :
            LET next == pass.blockers \o order IN
            /\ pass' = [pass EXCEPT !.stage = "write",
                           !.status.blockingPDBs = blocking,
                           !.status.observed = pass.spec,
                           !.status.ready = "Reconciled",
                           !.status.unblocked = next]
            /\ IF AnswerIsNew(pass.status.unblocked, next)
               THEN told' = [told EXCEPT ![w] = [answer |-> next, odd |-> ~@.odd]]
               ELSE UNCHANGED told
    /\ UNCHANGED <<spec, queued, waiting, failed, stored, seen, current, series, gauges, world>>

\* Mutant: a patch, which no other version stands in the way of.
StoresUnconditionally(p) == spec[p.window] # None /\ p.status # stored[p.window]

\* The update is conditional; one that changes nothing makes no version.
Stores(p) == p.fresh /\ p.status # stored[p.window]

Written(stores) ==
    IF stores
    THEN /\ stored' = [stored EXCEPT ![pass.window] = pass.status]
         /\ current' = [current EXCEPT ![pass.window] = FALSE]
    ELSE UNCHANGED <<stored, current>>

\* A pass that ends in an error is retried with backoff.
EndInError == /\ pass' = None
              /\ waiting' = [waiting EXCEPT ![pass.window] = TRUE]
              /\ failed' = [failed EXCEPT ![pass.window] = TRUE]

\* writeStatus takes a conflict, or a window that is gone, for done.  The early returns
\* end here: without asking for another pass, but for the selector's error.
WriteStatus ==
    /\ At("write")
    /\ Written(Stores(pass))
    /\ IF ~Managed(pass.spec)
       THEN /\ pass' = None
            /\ failed' = [failed EXCEPT ![pass.window] = FALSE]
            /\ UNCHANGED waiting
       ELSE IF ~pass.spec.selects THEN EndInError
       ELSE /\ pass' = [pass EXCEPT !.stage = "publish"]
            /\ UNCHANGED <<waiting, failed>>
    /\ UNCHANGED <<spec, queued, seen, series, gauges, told, world>>

WriteFailsUnnoticed ==         \* mutant: every error is taken for a conflict
    /\ Disturb
    /\ At("write")
    /\ Managed(pass.spec) /\ pass.spec.selects
    /\ pass' = [pass EXCEPT !.stage = "publish"]
    /\ UNCHANGED <<spec, queued, waiting, failed, stored, seen, current, series, gauges, told,
                   scene>>

\* Any other error of the write, which may have been carried out all the same.
WriteFails ==
    /\ Disturb
    /\ At("write")
    /\ Written(Stores(pass)) \/ Written(FALSE)
    /\ EndInError
    /\ UNCHANGED <<spec, queued, seen, series, gauges, told, scene>>

\* A listing fails, of what the pass begins with or of nodes, pods or budgets.
ReadFails(w) ==
    /\ Disturb
    /\ Take(w) /\ seen[w] # None
    /\ waiting' = [waiting EXCEPT ![w] = TRUE]
    /\ failed' = [failed EXCEPT ![w] = TRUE]
    /\ UNCHANGED <<spec, reports, scene>>

ListFails ==
    /\ Disturb
    /\ At("nodes") \/ At("pods") \/ At("budgets")
    /\ EndInError
    /\ UNCHANGED <<spec, queued, stored, seen, current, series, gauges, told, scene>>

Mirror(status) == [asleep |-> status.phase = "Asleep", scaled |-> status.affected,
                   blocked |-> status.skipped, blockingPDBs |-> status.blockingPDBs]

\* publishMetrics, and the delay to the next pass.
Publish ==
    /\ At("publish")
    /\ series' = [series EXCEPT ![pass.window] = Mirror(pass.status)]
    /\ gauges' = pass.status.census
    /\ waiting' = [waiting EXCEPT ![pass.window] = TRUE]
    /\ failed' = [failed EXCEPT ![pass.window] = FALSE]
    /\ pass' = None
    /\ UNCHANGED <<spec, queued, stored, seen, current, told, world>>

\* The delay or the backoff is over.
Due(w) ==
    /\ waiting[w]
    /\ waiting' = [waiting EXCEPT ![w] = FALSE]
    /\ queued' = [queued EXCEPT ![w] = TRUE]
    /\ UNCHANGED <<spec, failed, reports, world>>

DeliverOnlyEdits(w) ==         \* mutant: the watch passes over changes of the status
    /\ ~current[w]
    /\ seen' = [seen EXCEPT ![w] = Latest(w)]
    /\ current' = [current EXCEPT ![w] = TRUE]
    /\ queued' = [queued EXCEPT ![w] = @ \/ seen[w] = None \/ spec[w] = None
                                         \/ seen[w].spec # spec[w]]
    /\ UNCHANGED <<spec, waiting, failed, stored, pass, series, gauges, told, world>>

\* The watch delivers the latest version, and enqueues the window.
Deliver(w) ==
    /\ ~current[w]
    /\ seen' = [seen EXCEPT ![w] = Latest(w)]
    /\ current' = [current EXCEPT ![w] = TRUE]
    /\ queued' = [queued EXCEPT ![w] = TRUE]
    /\ UNCHANGED <<spec, waiting, failed, stored, pass, series, gauges, told, world>>

\* The process dies and is restarted: the series are gone, and so is the queue; the new
\* process lists everything before its first pass.
Crash ==
    /\ Disturb
    /\ pass' = None
    /\ series' = [w \in Windows |-> None] /\ gauges' = None
    /\ seen' = [w \in Windows |-> Latest(w)]
    /\ current' = [w \in Windows |-> TRUE]
    /\ queued' = [w \in Windows |-> spec[w] # None]
    /\ waiting' = [w \in Windows |-> FALSE]
    /\ failed' = waiting'
    /\ UNCHANGED <<spec, stored, told, scene>>

-----------------------------------------------------------------------------
(* The people and the cluster.                                              *)

\* A window is declared, edited or deleted; its status goes with it.
EditSpec(w) ==
    /\ Disturb
    /\ \E s \in (Specs \union {None}) \ {spec[w]} : spec' = [spec EXCEPT ![w] = s]
    /\ stored' = [stored EXCEPT ![w] = IF spec[w] = None \/ spec'[w] = None THEN NoStatus
                                       ELSE @]
    /\ current' = [current EXCEPT ![w] = FALSE]
    /\ pass' = IF pass # None /\ pass.window = w THEN [pass EXCEPT !.fresh = FALSE] ELSE pass
    /\ UNCHANGED <<queued, waiting, failed, seen, series, gauges, told, scene>>

\* A boundary of the schedule, or a request granted or lapsed.
Boundary(w) ==
    /\ Disturb
    /\ \E phase \in Phases \ {"", verdict[w]} : verdict' = [verdict EXCEPT ![w] = phase]
    /\ UNCHANGED <<spec, queued, waiting, failed, reports, standing, nodes, pods, budgets>>

\* A person scales a lowered workload, which the watch on Deployments reports.
ScaleByHand(d) ==
    /\ Disturb
    /\ "lowered" \in standing[d]
    /\ standing' = [standing EXCEPT ![d] = @ \union {"manual"}]
    /\ queued' = [w \in Windows |-> queued[w] \/ seen[w] # None]
    /\ UNCHANGED <<spec, waiting, failed, reports, verdict, nodes, pods, budgets>>

\* Nobody watches autoscalers, nodes, pods and budgets: the next pass finds out.
ToggleHPA(d) ==
    /\ Disturb
    /\ standing' = [standing EXCEPT ![d] = IF "hpa" \in @ THEN @ \ {"hpa"}
                                           ELSE @ \union {"hpa"}]
    /\ UNCHANGED <<spec, queued, waiting, failed, reports, verdict, nodes, pods, budgets>>

ChangeNodes ==
    /\ Disturb
    /\ \E n \in DOMAIN Nodes : nodes' = IF n \in nodes THEN nodes \ {n} ELSE nodes \union {n}
    /\ UNCHANGED <<spec, queued, waiting, failed, reports, verdict, standing, pods, budgets>>

\* A pod is placed, runs to its end, or makes room for another of its name.
ChangePod(p) ==
    /\ Disturb
    /\ \E pod \in {x \in PodType : x.daemon = (p \in Daemons) /\ (x.node = None => x.phase = "Pending")} :
          pods' = [pods EXCEPT ![p] = pod]
    /\ UNCHANGED <<spec, queued, waiting, failed, reports, verdict, standing, nodes, budgets>>

ChangeBudget(b) ==
    /\ Disturb
    /\ \E allowed, healthy \in 0 .. 1 :
          /\ allowed <= healthy
          /\ budgets' = [budgets EXCEPT ![b] = [allowed |-> allowed, healthy |-> healthy]]
    /\ UNCHANGED <<spec, queued, waiting, failed, reports, verdict, standing, nodes, pods>>

-----------------------------------------------------------------------------
Begin(w) == Forget(w) \/ Suspend(w) \/ Reject(w) \/ MisSelect(w) \/ Survey(w)

Proceed == ListNodes \/ ListPods \/ SetConditions \/ WriteStatus \/ Publish

System == \/ \E w \in Windows : Begin(w) \/ Due(w) \/ Deliver(w)
          \/ Proceed

Environment ==
    \/ WriteFails \/ ListFails \/ Crash \/ ChangeNodes
    \/ \E w \in Windows : ReadFails(w) \/ EditSpec(w) \/ Boundary(w)
    \/ \E d \in Deployments : ScaleByHand(d) \/ ToggleHPA(d)
    \/ \E p \in Pods : ChangePod(p)
    \/ \E b \in Budgets : ChangeBudget(b)

Next == System \/ Environment

Spec == Init /\ [][Next]_vars

\* The worker goes on, the queue is first in first out, delays end and the watch
\* delivers.
Fairness == /\ \A w \in Windows : SF_vars(Begin(w)) /\ WF_vars(Due(w)) /\ WF_vars(Deliver(w))
            /\ WF_vars(Proceed)

FairSpec == Spec /\ Fairness

-----------------------------------------------------------------------------
(* Safety.                                                                  *)

\* Nothing about w is under way or on its way, but for the routine look.
AtRest(w) == /\ current[w] /\ ~queued[w] /\ ~failed[w]
             /\ pass # None => pass.window # w

\* "Mirrors the status just written": between its passes, what a window's series say is
\* what its status says, through conflicts, failed writes and crashes.
SeriesMirrorStatus == \A w \in Windows :
    /\ AtRest(w) /\ spec[w] # None
    /\ Managed(spec[w]) /\ spec[w].selects
    => series[w] = Mirror(stored[w])

\* A deleted window leaves no series behind, not even one that a pass puts there after
\* the deletion.
NoGhostSeries == \A w \in Windows :
    AtRest(w) /\ spec[w] = None => series[w] = None

\* No answer changes in the status without having been announced: whenever a pass stores
\* another one, it is what the last Event said.
ChangesAreAnnounced ==
    [][\A w \in Windows :
          stored'[w].unblocked # stored[w].unblocked /\ stored'[w].unblocked # None
          => told[w].answer = stored'[w].unblocked]_vars

\* Why the three hold.  While nothing is on its way that brings w back, the pass in
\* progress works from what is so, and what it publishes is what is stored; and as long
\* as its write can land, the answer it holds is the stored one or the one announced.
Undisturbed(w) == current[w] /\ ~queued[w]

PassInv == pass # None =>
    LET w == pass.window IN
    /\ Undisturbed(w) => /\ spec[w] = pass.spec /\ pass.fresh
                         /\ pass.stage = "publish" => pass.status = stored[w]
    /\ pass.fresh /\ pass.stage # "publish" =>
          \/ pass.status.unblocked = stored[w].unblocked
          \/ pass.stage = "write" /\ pass.status.unblocked = told[w].answer

RestInv(w) == Undisturbed(w) /\ (pass # None => pass.window # w) =>
    /\ spec[w] = None => series[w] = None
    /\ spec[w] # None /\ ~failed[w] /\ Managed(spec[w]) /\ spec[w].selects
          => series[w] = Mirror(stored[w])

ReportInv == /\ \A w \in Windows : current[w] => seen[w] = Latest(w)
             /\ PassInv
             /\ \A w \in Windows : RestInv(w)

\* "Emits an Event only when that answer changes": where the status remembers what the
\* last Event named as standing in the way, and the pass has read it, another Event names
\* something else.
Named(answer) == {answer[i] : i \in DOMAIN answer}

OneEventPerAnswer ==
    [][\A w \in Windows :
          /\ At("budgets") /\ pass.window = w
          /\ told'[w] # told[w]
          /\ told[w].answer # None /\ pass.status.unblocked = told[w].answer
          => Named(told'[w].answer) # Named(told[w].answer)]_vars

-----------------------------------------------------------------------------
(* Liveness, after the last disturbance.                                    *)

\* Nodes that could be removed now: no pod on them would have to go elsewhere.
Workers == {n \in nodes : ~Nodes[n].controlPlane /\ ~Nodes[n].fargate /\ Nodes[n].reclaimable}
Idle(n) == \A p \in Pods :
    pods[p].node = n => p \in Daemons \/ pods[p].phase \in {"Succeeded", "Failed"}
Removable == {n \in Workers : Idle(n)}

\* Budgets that would refuse an eviction now.
Refusing == {b \in Budgets : budgets[b].healthy > 0 /\ budgets[b].allowed = 0}

\* Workloads held down, and those that are a person's or an autoscaler's.
Lowered     == {d \in Deployments : "lowered" \in standing[d]}
Excepted(w) == {d \in Deployments :
    \/ "manual" \in standing[d] /\ spec[w].respectManualScale
    \/ "hpa" \in standing[d] /\ spec[w].hpaPolicy # "Scale"}

\* What a status of w has to say of the workloads, of the nodes, and of all that stands
\* in the way.
AboutWorkloads(w, st) == /\ st.phase = verdict[w]
                         /\ st.affected = Lowered \ st.skipped
                         /\ st.skipped = Excepted(w)

AboutNodes(st) == st.census = [workers   |-> Cardinality(Workers),
                               drainable |-> Cardinality(Removable)]

AboutBlockers(w, st) ==
    /\ st.ready = "Reconciled" /\ st.observed = spec[w]
    /\ st.blockingPDBs = Refusing
    /\ Named(st.unblocked) = Refusing \union InTheWay(spec[w], verdict[w])

Truthful(w) ==
    /\ AboutWorkloads(w, stored[w]) /\ AboutNodes(stored[w]) /\ AboutBlockers(w, stored[w])
    /\ series[w] = Mirror(stored[w])

\* The window is one that passes look after, and its workloads need no patch.
Steady(w) == /\ spec[w] # None /\ Managed(spec[w]) /\ spec[w].selects
             /\ Patches(spec[w], verdict[w]) = {}

\* What the pass of w has found out so far is so.
OnTrack(w) ==
    /\ pass.window = w /\ pass.spec = spec[w]
    /\ AboutWorkloads(w, pass.status)
    /\ pass.stage \in {"nodes", "pods", "budgets"} =>
          Named(pass.blockers) = InTheWay(spec[w], verdict[w])
    /\ pass.stage = "pods" => pass.nodes = nodes
    /\ pass.stage \in {"budgets", "write", "publish"} => AboutNodes(pass.status)
    /\ pass.stage \in {"write", "publish"} => AboutBlockers(w, pass.status)
    /\ pass.stage = "publish" /\ pass.fresh => pass.status = stored[w]

\* What convergence rests on.  A pass over a steady window that begins with its latest
\* version, and is not disturbed, tells the truth; and the truth once told stays told
\* while no workload is patched, also by passes that begin with an older version.
Tells(w) == /\ Steady(w) /\ Truthful(w)
            /\ seen[w] # None /\ seen[w].spec = spec[w]
            /\ pass # None /\ pass.window = w => OnTrack(w)

PassesTell ==
    [][System => \A w \in Windows :
          /\ Steady(w) /\ current[w] /\ Survey(w) => OnTrack(w)' /\ pass'.fresh
          /\ Steady(w) /\ pass # None /\ pass.fresh /\ OnTrack(w) =>
                IF pass' # None THEN OnTrack(w)' /\ pass'.fresh ELSE Truthful(w)'
          /\ Tells(w) /\ UNCHANGED standing => Tells(w)']_vars

\* Status and series come to say what is so, for good.
ReportsSettle == <>[](\A w \in Windows :
    IF spec[w] = None THEN series[w] = None
    ELSE IF spec[w].suspend THEN stored[w].ready = "Suspended" /\ stored[w].phase = ""
    ELSE IF ~spec[w].readable THEN stored[w].ready = "InvalidSchedule"
    ELSE IF ~spec[w].selects THEN stored[w].ready = "SelectorError"
    ELSE Truthful(w))

\* A fact is not turned into noise: in a world that stays as it is, the Events end.
NewsEnds == <>[][UNCHANGED told]_vars
=============================================================================
