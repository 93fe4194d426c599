-------------------------- MODULE WorkloadScaling --------------------------
(***************************************************************************)
(* How the idle-reaper controller moves Deployments between their working  *)
(* size and their idle size, and where it keeps the working size meanwhile.*)
(*                                                                         *)
(* One worker runs passes of Reconcile, one IdleWindow at a time.  A pass  *)
(* reads the window, the clock's verdict, the Deployments and the HPAs     *)
(* from the informer cache, then walks the Deployments and sends one merge *)
(* patch for each that is out of place.  The cache trails the API server   *)
(* by the versions still in `feed', and a merge patch names only the       *)
(* fields that differ from the copy that was read, so a pass that read an  *)
(* old copy patches a newer object.                                        *)
(*                                                                         *)
(* People, GitOps tools and autoscalers write replica counts; windows are  *)
(* edited, created and deleted; schedules cross boundaries; WakeRequests   *)
(* come and lapse; patches are lost; the controller crashes.  Each of      *)
(* these is a named member of Disturbances, so that a run or a theorem can *)
(* say which of them it allows.                                            *)
(***************************************************************************)
EXTENDS Integers, Sequences

CONSTANTS
    Deployments,    \* the Deployments of one namespace
    Windows,        \* the IdleWindows of that namespace
    Sizes,          \* replica counts people and autoscalers write
    Specs,          \* the IdleWindow specs that may be declared
    None,           \* an absent annotation, an absent window, no pass
    MaxLag,         \* bound: undelivered versions per Deployment
    PromptCache,    \* TRUE: a pass never starts behind the controller's own writes
    Disturbances    \* which of AllDisturbances may happen

AllDisturbances ==
    {"scale", "strip", "edit", "boundary", "wake", "hpa", "fault", "crash"}

HPAPolicies == {"Skip", "Warn", "Scale"}

SpecType == [minReplicas : Nat, respectManualScale : BOOLEAN,
             hpaPolicy : HPAPolicies, suspend : BOOLEAN,
             selects : SUBSET Deployments]

ASSUME SizesAssumption   == Sizes \subseteq Nat
ASSUME SpecsAssumption   == Specs \subseteq SpecType
ASSUME NoneAssumption    == None \notin Nat \union Windows \union Specs
ASSUME LagAssumption     == MaxLag \in Nat \ {0}
ASSUME SwitchAssumption  == /\ PromptCache \in BOOLEAN
                            /\ Disturbances \subseteq AllDisturbances

(***************************************************************************)
(* A Deployment as far as the controller reads and writes it: the count,   *)
(* and the three annotations of idlewindow_types.go.                       *)
(***************************************************************************)
Object == [replicas : Nat, saved : Nat \union {None},
           applied : Nat \union {None}, owner : Windows \union {None}]

Phases == {"", "Awake", "Asleep", "WakeRequested"}

VARIABLES
    server,     \* server[d]: the Deployment as the API server stores it
    cache,      \* cache[d]: the informer's copy
    feed,       \* feed[d]: versions the informer has not delivered yet, oldest first
    own,        \* own[d]: index in feed[d] of the controller's last write, 0 if delivered
    spec,       \* spec[w]: the declared window, None when there is none
    scheduled,  \* scheduled[w]: the schedule says asleep
    woken,      \* woken[w]: an unexpired WakeRequest holds the namespace awake
    hpaTargets, \* Deployments some HorizontalPodAutoscaler names as its target
    pass,       \* the pass in progress, or None
    status,     \* status[w]: the phase and the workloads counted in status
    held        \* held[d]: the count in force was written by a scale-down in place
                \* of the workload's own; a history variable

vars == <<server, cache, feed, own, spec, scheduled, woken, hpaTargets, pass,
          status, held>>

Pass == [window : Windows, spec : Specs, asleep : BOOLEAN, phase : Phases,
         base : [Deployments -> Object], hpaOwned : SUBSET Deployments,
         todo : SUBSET Deployments, affected : SUBSET Deployments,
         skipped : SUBSET Deployments, fresh : BOOLEAN]

ASSUME NoPassAssumption == None \notin Pass

TypeOK ==
    /\ server \in [Deployments -> Object]
    /\ cache \in [Deployments -> Object]
    /\ feed \in [Deployments -> Seq(Object)]
    /\ own \in [Deployments -> Nat]
    /\ \A d \in Deployments : Len(feed[d]) <= MaxLag /\ own[d] <= Len(feed[d])
    /\ spec \in [Windows -> Specs \union {None}]
    /\ scheduled \in [Windows -> BOOLEAN]
    /\ woken \in [Windows -> BOOLEAN]
    /\ hpaTargets \subseteq Deployments
    /\ pass \in Pass \union {None}
    /\ status \in [Windows -> [phase : Phases, affected : SUBSET Deployments,
                               skipped : SUBSET Deployments]]
    /\ held \in [Deployments -> BOOLEAN]

-----------------------------------------------------------------------------
(* What one call of reconcileDeployment wants a Deployment to be.           *)

Untouched(n) == [replicas |-> n, saved |-> None, applied |-> None, owner |-> None]

\* The count differs from the one this controller last wrote.
ManuallyChanged(obj) == obj.applied # None /\ obj.replicas # obj.applied

StandsDown(obj, s) == ManuallyChanged(obj) /\ s.respectManualScale

HPASkips(d, s, hpaOwned) == d \in hpaOwned /\ s.hpaPolicy # "Scale"

Original(obj) == IF obj.saved # None THEN obj.saved ELSE obj.replicas

\* Mutants: the record is not written; it is written the wrong way round.
ScaleToUnrecorded(obj, w, to, original) ==
    [obj EXCEPT !.replicas = to, !.applied = to, !.owner = w]
ScaleToSwapped(obj, w, to, original) ==
    [replicas |-> to, saved |-> to, applied |-> original, owner |-> w]

ScaleTo(obj, w, to, original) ==
    [replicas |-> to, saved |-> original, applied |-> to, owner |-> w]

RestoreTo(obj, to) == Untouched(to)

\* Mutant: one of the three deletes is missing its companions.
ClearSavedOnly(obj) == [obj EXCEPT !.saved = None]

\* The early return looks at the saved annotation only.
ClearAnnotations(obj) ==
    IF obj.saved = None THEN obj ELSE Untouched(obj.replicas)

InPlaceAsleep(obj, s) == obj.replicas = s.minReplicas /\ obj.saved # None

\* Mutants: the record is not consulted; people are overruled; a workload at the
\* floor is never looked at; standing down drops the record.
WhileAsleepForgetful(obj, w, s) ==
    IF StandsDown(obj, s) \/ InPlaceAsleep(obj, s)
    THEN obj
    ELSE ScaleTo(obj, w, s.minReplicas, obj.replicas)
WhileAsleepOverruling(obj, w, s) ==
    IF InPlaceAsleep(obj, s) THEN obj ELSE ScaleTo(obj, w, s.minReplicas, Original(obj))
WhileAsleepByCount(obj, w, s) ==
    IF StandsDown(obj, s) \/ obj.replicas = s.minReplicas
    THEN obj
    ELSE ScaleTo(obj, w, s.minReplicas, Original(obj))
WhileAsleepDropping(obj, w, s) ==
    IF StandsDown(obj, s) THEN ClearAnnotations(obj)
    ELSE IF InPlaceAsleep(obj, s) THEN obj ELSE ScaleTo(obj, w, s.minReplicas, Original(obj))

WhileAsleep(obj, w, s) ==
    IF StandsDown(obj, s) \/ InPlaceAsleep(obj, s)
    THEN obj
    ELSE ScaleTo(obj, w, s.minReplicas, Original(obj))

\* Mutants: no check that there is a record; the record dropped, not used.
WhileAwakeUnchecked(obj, s) ==
    IF StandsDown(obj, s) \/ obj.saved = obj.replicas
    THEN ClearAnnotations(obj)
    ELSE RestoreTo(obj, obj.saved)
WhileAwakeForgetting(obj, s) == ClearAnnotations(obj)

WhileAwake(obj, s) ==
    IF StandsDown(obj, s) \/ obj.saved = None \/ obj.saved = obj.replicas
    THEN ClearAnnotations(obj)     \* changes nothing when there is no record
    ELSE RestoreTo(obj, obj.saved)

Desired(obj, w, s, asleep) ==
    IF asleep THEN WhileAsleep(obj, w, s) ELSE WhileAwake(obj, s)

CountedFirst(obj, s, asleep) ==     \* mutant: counted before standing down
    asleep \/ obj.saved # None

\* Whether the call counts the workload in status.affectedWorkloads.
Counted(obj, s, asleep) == ~StandsDown(obj, s) /\ (asleep \/ obj.saved # None)

(***************************************************************************)
(* client.MergeFrom: the patch carries the fields in which `want' differs  *)
(* from `base', the copy that was read, and no resourceVersion; the server *)
(* applies it to whatever it holds now.                                    *)
(***************************************************************************)
Patched(obj, base, want) ==
    [f \in DOMAIN obj |-> IF want[f] # base[f] THEN want[f] ELSE obj[f]]

-----------------------------------------------------------------------------
Init ==
    /\ server \in [Deployments -> {Untouched(n) : n \in Sizes}]
    /\ cache = server
    /\ feed = [d \in Deployments |-> <<>>]
    /\ own = [d \in Deployments |-> 0]
    /\ spec \in [Windows -> Specs]
    /\ scheduled \in [Windows -> BOOLEAN]
    /\ woken = [w \in Windows |-> FALSE]
    /\ hpaTargets = {}
    /\ pass = None
    /\ status = [w \in Windows |-> [phase |-> "", affected |-> {}, skipped |-> {}]]
    /\ held = [d \in Deployments |-> FALSE]

\* The API server stores a new version and sends it to the informer; writing
\* the object it already holds is not a new version.
Store(d, obj) ==
    /\ server' = [server EXCEPT ![d] = obj]
    /\ feed' = IF obj = server[d] THEN feed
               ELSE [feed EXCEPT ![d] = Append(@, obj)]

-----------------------------------------------------------------------------
(* The controller.                                                          *)

Asleep(w) == scheduled[w] /\ ~woken[w]

Phase(w) == IF Asleep(w) THEN "Asleep"
            ELSE IF scheduled[w] THEN "WakeRequested" ELSE "Awake"

\* A suspended window is only marked so; its workloads are left as they are.
SkipSuspended(w) ==
    /\ pass = None
    /\ spec[w] # None
    /\ spec[w].suspend
    /\ status' = [status EXCEPT ![w].phase = ""]
    /\ UNCHANGED <<server, cache, feed, own, spec, scheduled, woken, hpaTargets,
                   pass, held>>

\* Get, evaluateWindow, evaluateWakeRequests, selectDeployments and
\* deploymentsOwnedByHPA: everything a pass reads, it reads before it writes.
\* The four reads are of independent state, so one step stands for them.
BeginPass(w) ==
    /\ pass = None
    /\ spec[w] # None
    /\ ~spec[w].suspend
    /\ PromptCache => \A d \in spec[w].selects : own[d] = 0
    /\ pass' = [window |-> w, spec |-> spec[w], asleep |-> Asleep(w),
                phase |-> Phase(w), base |-> cache, hpaOwned |-> hpaTargets,
                todo |-> spec[w].selects, affected |-> {}, skipped |-> {},
                fresh |-> TRUE]
    /\ UNCHANGED <<server, cache, feed, own, spec, scheduled, woken, hpaTargets,
                   status, held>>

\* One turn of the loop, for a workload in the order the cache lists them (no
\* order is promised).  A failed patch is reported as an event and the loop
\* goes on, with the counts already added.
ReconcileDeployment(d, landed) ==
    /\ pass # None
    /\ d \in pass.todo
    /\ Len(feed[d]) < MaxLag
    /\ LET base == pass.base[d]
           s    == pass.spec
           skip == HPASkips(d, s, pass.hpaOwned)
           want == IF skip THEN base ELSE Desired(base, pass.window, s, pass.asleep)
           new  == Patched(server[d], base, want)
       IN /\ pass' = [pass EXCEPT
                        !.todo = @ \ {d},
                        !.affected = IF ~skip /\ Counted(base, s, pass.asleep)
                                     THEN @ \union {d} ELSE @,
                        !.skipped = IF skip \/ StandsDown(base, s)
                                    THEN @ \union {d} ELSE @]
          /\ landed \/ want # base
          /\ IF landed
             THEN /\ Store(d, new)
                  /\ own' = [own EXCEPT ![d] = IF new = server[d] THEN @
                                               ELSE Len(feed[d]) + 1]
                  /\ held' = [held EXCEPT ![d] =
                                IF new.replicas = server[d].replicas THEN @
                                ELSE pass.asleep /\ want.replicas # Original(base)]
             ELSE UNCHANGED <<server, feed, own, held>>
    /\ UNCHANGED <<cache, spec, scheduled, woken, hpaTargets, status>>

\* The status write.  Not finding the window, or conflicting with an edit made
\* since it was read, drops the write silently.
Complete ==
    /\ pass # None
    /\ pass.todo = {}
    /\ status' = IF pass.fresh
                 THEN [status EXCEPT ![pass.window] =
                         [phase |-> pass.phase, affected |-> pass.affected,
                          skipped |-> pass.skipped]]
                 ELSE status
    /\ pass' = None
    /\ UNCHANGED <<server, cache, feed, own, spec, scheduled, woken, hpaTargets, held>>

\* The node or PodDisruptionBudget list, or the status write, fails: the pass
\* ends in an error with its patches applied and its status unwritten.
AbortPass ==
    /\ "fault" \in Disturbances
    /\ pass # None
    /\ pass.todo = {}
    /\ pass' = None
    /\ UNCHANGED <<server, cache, feed, own, spec, scheduled, woken, hpaTargets,
                   status, held>>

\* The informer hands the next version to the cache.
Deliver(d) ==
    /\ feed[d] # <<>>
    /\ cache' = [cache EXCEPT ![d] = Head(feed[d])]
    /\ feed' = [feed EXCEPT ![d] = Tail(@)]
    /\ own' = [own EXCEPT ![d] = IF @ = 0 THEN 0 ELSE @ - 1]
    /\ UNCHANGED <<server, spec, scheduled, woken, hpaTargets, pass, status, held>>

\* The process dies wherever it is; the next one lists everything afresh
\* before its first pass and remembers nothing.
Crash ==
    /\ "crash" \in Disturbances
    /\ pass' = None
    /\ cache' = server
    /\ feed' = [d \in Deployments |-> <<>>]
    /\ own' = [d \in Deployments |-> 0]
    /\ UNCHANGED <<server, spec, scheduled, woken, hpaTargets, status, held>>

-----------------------------------------------------------------------------
(* Everyone else.                                                           *)

\* A person, a GitOps sync or an autoscaler writes a replica count.
Scale(d, n) ==
    /\ "scale" \in Disturbances
    /\ Len(feed[d]) < MaxLag
    /\ n # server[d].replicas
    /\ Store(d, [server[d] EXCEPT !.replicas = n])
    /\ held' = [held EXCEPT ![d] = FALSE]
    /\ UNCHANGED <<cache, own, spec, scheduled, woken, hpaTargets, pass, status>>

\* A person removes the saved annotation and nothing else.
Strip(d) ==
    /\ "strip" \in Disturbances
    /\ Len(feed[d]) < MaxLag
    /\ server[d].saved # None
    /\ Store(d, [server[d] EXCEPT !.saved = None])
    /\ held' = [held EXCEPT ![d] = FALSE]
    /\ UNCHANGED <<cache, own, spec, scheduled, woken, hpaTargets, pass, status>>

\* A window is declared, edited or deleted.  The status of a window declared
\* again starts empty.
EditSpec(w) ==
    /\ "edit" \in Disturbances
    /\ \E s \in Specs \union {None} :
          /\ s # spec[w]
          /\ spec' = [spec EXCEPT ![w] = s]
          /\ status' = IF s = None
                       THEN [status EXCEPT ![w] =
                               [phase |-> "", affected |-> {}, skipped |-> {}]]
                       ELSE status
    /\ pass' = IF pass # None /\ pass.window = w THEN [pass EXCEPT !.fresh = FALSE]
               ELSE pass
    /\ UNCHANGED <<server, cache, feed, own, scheduled, woken, hpaTargets, held>>

Boundary(w) ==
    /\ "boundary" \in Disturbances
    /\ scheduled' = [scheduled EXCEPT ![w] = ~@]
    /\ UNCHANGED <<server, cache, feed, own, spec, woken, hpaTargets, pass, status, held>>

\* The first WakeRequest is granted, or the last one lapses.
WakeFlip(w) ==
    /\ "wake" \in Disturbances
    /\ woken' = [woken EXCEPT ![w] = ~@]
    /\ UNCHANGED <<server, cache, feed, own, spec, scheduled, hpaTargets, pass, status,
                   held>>

ToggleHPA(d) ==
    /\ "hpa" \in Disturbances
    /\ hpaTargets' = IF d \in hpaTargets THEN hpaTargets \ {d} ELSE hpaTargets \union {d}
    /\ UNCHANGED <<server, cache, feed, own, spec, scheduled, woken, pass, status, held>>

-----------------------------------------------------------------------------
System ==
    \/ \E w \in Windows : SkipSuspended(w) \/ BeginPass(w)
    \/ \E d \in Deployments : ReconcileDeployment(d, TRUE) \/ Deliver(d)
    \/ Complete

LostPatch == /\ "fault" \in Disturbances
             /\ \E d \in Deployments : ReconcileDeployment(d, FALSE)

Environment ==
    \/ LostPatch
    \/ AbortPass
    \/ Crash
    \/ \E d \in Deployments : (\E n \in Sizes : Scale(d, n)) \/ Strip(d) \/ ToggleHPA(d)
    \/ \E w \in Windows : EditSpec(w) \/ Boundary(w) \/ WakeFlip(w)

Next == System \/ Environment

Spec == Init /\ [][Next]_vars

(***************************************************************************)
(* Every window is looked at again: a finished pass requeues itself within *)
(* ten minutes, a failed one is retried with backoff, and the work queue   *)
(* is first in first out, so no window waits for ever behind another.  The *)
(* worker finishes the pass it started, and a watch delivers every change. *)
(***************************************************************************)
Fairness ==
    /\ \A w \in Windows : SF_vars(SkipSuspended(w)) /\ SF_vars(BeginPass(w))
    /\ \A d \in Deployments : WF_vars(ReconcileDeployment(d, TRUE)) /\ WF_vars(Deliver(d))
    /\ WF_vars(Complete)

FairSpec == Spec /\ Fairness

-----------------------------------------------------------------------------
(* Safety.                                                                  *)

\* A workload standing at a count the controller lowered it to carries the
\* size to restore: no crash, lost patch, deleted window or overlapping window
\* leaves it down with no record (scaleTo and its comment).
NeverStranded == \A d \in Deployments : held[d] => server[d].saved # None

\* The three annotations come and go together: half a record would be read as
\* a person's change (applied alone) or as a size to restore (saved alone).
AnnotationsTogether ==
    \A d \in Deployments :
        /\ (server[d].saved = None) <=> (server[d].applied = None)
        /\ (server[d].saved = None) <=> (server[d].owner = None)

\* The recorded size is one that people or autoscalers wrote, never a count
\* the controller itself had put there: a second window, a second sleep or a
\* pass after a crash does not record the idle size as the original.
SavedIsAPersonsCount ==
    \A d \in Deployments : server[d].saved \in Sizes \union {None}

\* Why the three invariants above hold when no pass starts behind the
\* controller's own writes.  Sound: the record is whole, names a person's count,
\* and is there whenever the count is not a person's.
Sound(obj, lowered) ==
    /\ (obj.saved = None) <=> (obj.applied = None)
    /\ (obj.saved = None) <=> (obj.owner = None)
    /\ obj.saved \in Sizes \union {None}
    /\ lowered => /\ obj.saved # None
                  /\ obj.replicas = obj.applied
                  /\ obj.replicas # obj.saved
    /\ obj.replicas \in Sizes \/ lowered

\* A version that a pass works from or may yet work from carries the same
\* record as the server's, and the same count unless somebody else wrote it.
Agrees(v, obj, lowered) ==
    /\ v.saved = obj.saved /\ v.applied = obj.applied /\ v.owner = obj.owner
    /\ lowered => v = obj
    /\ v.saved = None => v.replicas \in Sizes

RecordInv ==
    \A d \in Deployments :
        /\ Sound(server[d], held[d])
        /\ own[d] = 0 => Agrees(cache[d], server[d], held[d])
        /\ \A i \in 1 .. Len(feed[d]) :
              i >= own[d] => Agrees(feed[d][i], server[d], held[d])
        /\ pass # None /\ d \in pass.todo => Agrees(pass.base[d], server[d], held[d])

\* Why SizeIsKept holds when nobody else writes and the windows agree on the
\* floor m: every version anywhere is the workload at its size, untouched, or at
\* the floor with that size on record.
InForm(v, size, m) ==
    \/ v.replicas = size /\ v.saved = None /\ v.applied = None /\ v.owner = None
    \/ v.replicas = m /\ v.saved = size /\ v.applied = m /\ v.owner # None

TwoForms(m) ==
    \A d \in Deployments :
        LET size == Original(server[d]) IN
        /\ InForm(server[d], size, m)
        /\ InForm(cache[d], size, m)
        /\ \A i \in 1 .. Len(feed[d]) : InForm(feed[d][i], size, m)
        /\ pass # None => InForm(pass.base[d], size, m)

\* The size as the controller knows it: from the copy the pass in progress works
\* from, else from its own last write, else from its cache.
Known(d) == IF pass # None /\ d \in pass.todo THEN pass.base[d]
            ELSE IF own[d] # 0 THEN feed[d][own[d]] ELSE cache[d]

\* The controller implements the promise of Custody: a workload is lowered and
\* given its size back, and while it is lowered its size is not lost or changed,
\* whatever passes, crashes, lost patches, overlapping windows and other writers
\* come in between.
Promise == INSTANCE Custody
           WITH Floors  <- {s.minReplicas : s \in Specs},
                count   <- [d \in Deployments |-> server[d].replicas],
                size    <- [d \in Deployments |-> Original(Known(d))],
                lowered <- held

KeepsCustody == Promise!Spec

\* The size a workload would be given back is never changed by the controller,
\* however old the copies its passes work from: a restart, a repeated pass or a
\* lost patch cannot make it forget or replace the original.  (Stated for runs
\* in which nobody else writes counts.)
SizeIsKept ==
    [][\A d \in Deployments : Original(server'[d]) = Original(server[d])]_vars

\* Whoever else wrote the count of a workload since a window lowered it, a pass
\* of that window, or of another with the same floor, leaves that count alone
\* if it respects manual scaling ("someone scaling up at midnight wins").
MidnightScaleWins ==
    [][\A d \in Deployments :
          (/\ pass # None /\ d \in pass.todo
           /\ pass' # None /\ d \notin pass'.todo
           /\ pass.asleep /\ StandsDown(server[d], pass.spec)
           /\ server[d].applied = pass.spec.minReplicas)
          => server'[d].replicas = server[d].replicas]_vars

-----------------------------------------------------------------------------
(* Whole passes and whole nights.                                           *)

\* The windows that look after d.
Managers(d) == {w \in Windows : spec[w] # None /\ ~spec[w].suspend /\ d \in spec[w].selects}

\* All of them sleep, respect people and have the same floor; so does the pass in
\* progress, if it has yet to come to d.
NightFor(d, floor) ==
    /\ \A w \in Managers(d) : /\ Asleep(w)
                              /\ spec[w].respectManualScale
                              /\ spec[w].minReplicas = floor
    /\ pass # None /\ d \in pass.todo =>
          pass.asleep /\ pass.spec.respectManualScale /\ pass.spec.minReplicas = floor

PersonHolds(d) == ManuallyChanged(server[d]) /\ NightFor(d, server[d].applied)

\* The count a person wrote stands, with the record of the size to restore, "for the
\* remainder of the current window": through any number of passes, crashes, lost
\* patches and autoscalers, until the person writes again, a window is edited or
\* crosses a boundary, or a WakeRequest comes or lapses.
HoldsTillMorning ==
    [][\A d \in Deployments :
          /\ PersonHolds(d)
          /\ UNCHANGED <<spec, scheduled, woken>>
          /\ \A n \in Sizes : ~Scale(d, n)
          => server'[d] = server[d] /\ PersonHolds(d)']_vars

\* What a workload is once the passes of window w have nothing left to do.
InPlace(d, w) ==
    LET s == spec[w] IN
    \/ HPASkips(d, s, hpaTargets)
    \/ Asleep(w) /\ \/ StandsDown(server[d], s)
                    \/ InPlaceAsleep(server[d], s)
    \/ ~Asleep(w) /\ server[d].saved = None /\ ~held[d]

\* What a pass of w is about to do is what is still to be done.
OnCourse(w) ==
    /\ pass.window = w /\ pass.spec = spec[w]
    /\ pass.asleep = Asleep(w) /\ pass.hpaOwned = hpaTargets
    /\ pass.todo \subseteq spec[w].selects
    /\ \A d \in pass.todo : pass.base[d] = server[d]
    /\ \A d \in spec[w].selects \ pass.todo : InPlace(d, w)

CaughtUp == \A d \in Deployments : feed[d] = <<>>

\* A pass that begins with nothing on its way, and is not disturbed, leaves every
\* workload of its window in place.
PutsInPlace == \A w \in Windows :
    /\ pass = None /\ CaughtUp /\ BeginPass(w) => OnCourse(w)'
    /\ pass # None /\ OnCourse(w) =>
          IF pass' # None THEN OnCourse(w)' ELSE \A d \in spec[w].selects : InPlace(d, w)'

PassedOver(w) ==
    {d \in spec[w].selects : \/ HPASkips(d, spec[w], hpaTargets)
                             \/ StandsDown(server[d], spec[w])}

HeldDown(w) == IF Asleep(w) THEN spec[w].selects \ PassedOver(w) ELSE {}

Reported(w) ==
    /\ status[w].phase = Phase(w)
    /\ status[w].skipped = PassedOver(w)
    /\ status[w].affected = HeldDown(w)

\* A pass that finds everything in place, and what it will say of it.
Telling(w) ==
    /\ OnCourse(w) /\ pass.fresh /\ pass.phase = Phase(w)
    /\ \A d \in spec[w].selects : InPlace(d, w)
    /\ pass.skipped = PassedOver(w) \ pass.todo
    /\ pass.affected = HeldDown(w) \ pass.todo

\* The pass after that says so.
TellsWhatIsSo == \A w \in Windows :
    /\ (/\ pass = None /\ CaughtUp /\ BeginPass(w)
        /\ \A d \in spec[w].selects : InPlace(d, w)) => Telling(w)'
    /\ pass # None /\ Telling(w) => IF pass' # None THEN Telling(w)' ELSE Reported(w)'

\* d is where every window wants it, and the controller knows.
AtRest(d) ==
    /\ feed[d] = <<>>
    /\ \A w \in Managers(d) : InPlace(d, w)
    /\ pass # None /\ d \in pass.todo =>
          /\ pass.window \in Managers(d) /\ pass.spec = spec[pass.window]
          /\ pass.asleep = Asleep(pass.window) /\ pass.hpaOwned = hpaTargets
          /\ pass.base[d] = server[d]

StaysInPlace == \A d \in Deployments : AtRest(d) => server'[d] = server[d] /\ AtRest(d)'

\* What convergence rests on: one pass suffices for its window, the next says so in its
\* status, and what all windows are content with is not touched again.
PassesSettle == [][System => PutsInPlace /\ TellsWhatIsSo /\ StaysInPlace]_vars

-----------------------------------------------------------------------------
(* Liveness: once the disturbances stop, the cluster settles where the      *)
(* declared windows want it.                                                *)

Quiet == <>[][System]_vars

\* They want different things of it.
Contested(d) == \E v, w \in Managers(d) :
    \/ Asleep(v) # Asleep(w)
    \/ Asleep(v) /\ spec[v].minReplicas # spec[w].minReplicas

Settled == \A w \in Windows :
    spec[w] # None /\ (\A d \in spec[w].selects : ~Contested(d)) =>
        IF spec[w].suspend THEN status[w].phase = ""
        ELSE (\A d \in spec[w].selects : InPlace(d, w)) /\ Reported(w)

\* Every window reaches its declared state and says so in its status, for good.
Converges == Quiet => <>[]Settled

\* Every window manages d and is awake.
AllAwakeFor(d) ==
    \A w \in Windows : /\ spec[w] # None
                        /\ ~spec[w].suspend
                        /\ d \in spec[w].selects
                        /\ ~Asleep(w)

\* Overlapping windows do not fight over a workload: its object comes to rest.
NoSilentFight == Quiet => <>[][UNCHANGED server]_vars

\* A workload that was put to sleep is given its size back once no window
\* that selects it is asleep, whatever happened in between.
RestoredWhenAwake ==
    Quiet => <>[](\A d \in Deployments : AllAwakeFor(d) => ~held[d])
=============================================================================
