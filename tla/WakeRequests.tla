---------------------------- MODULE WakeRequests ----------------------------
(***************************************************************************)
(* The exceptions to a window.  A WakeRequest asks its namespace to stay   *)
(* awake for a duration, counted from its creation; every IdleWindow of    *)
(* the namespace judges every request in each of its passes, writes the    *)
(* verdict into the request's status, and stays awake while one is Active. *)
(*                                                                         *)
(* The requests are read from the informer cache.  A status write carries  *)
(* the resourceVersion that was read: it is dropped when somebody wrote    *)
(* since, and fails the pass when the request is gone.  Every change of a  *)
(* request that reaches the cache brings all the windows back.             *)
(*                                                                         *)
(* Time is kept as the age of each request, which matters up to AgeBound.  *)
(* The schedule's own boundaries (module Schedule) are beyond MaxGap here, *)
(* until one is crossed.                                                   *)
(***************************************************************************)
EXTENDS Requeue, Judgement

CONSTANTS
    Requests,     \* names of WakeRequests of one namespace
    Windows,      \* the IdleWindows of that namespace
    Durations,    \* the durations people ask for
    Caps,         \* values of maxWakeDuration; 0 is one that does not parse
    MaxPass,      \* bound: units a pass may last
    MaxBackoff,   \* the rate limiter's longest delay
    AgeBound,     \* bound: a request older than this is this old
    Disturbances  \* which of AllDisturbances may happen

AllDisturbances == {"create", "delete", "edit", "cap", "boundary", "fault", "crash"}

ASSUME DurationAssumption == Durations \subseteq Nat /\ Caps \subseteq Nat
ASSUME BoundAssumption    == MaxPass \in Nat /\ MaxBackoff \in Nat \ {0}
ASSUME AgeAssumption      == /\ AgeBound \in Nat
                             /\ \A n \in Durations : /\ n + Margin <= AgeBound
                                                     /\ n + MaxPass + MinGap <= AgeBound
ASSUME WindowsAssumption  == None \notin Windows
ASSUME SwitchAssumption   == Disturbances \subseteq AllDisturbances

\* A request: what was asked for, and its status.  expiresAt is the creation time
\* plus some duration; only that duration is kept.
Object == [duration : Durations, phase : Verdicts \union {""},
           window : Windows \union {None}, expiresAfter : Durations \union {None}]

Phases == {"", "Awake", "Asleep", "WakeRequested"}

VARIABLES
    server,     \* server[r]: the request as the API server stores it, or None
    age,        \* age[r]: units since r was created, 0 for an absent request
    cache,      \* cache[r]: the informer's copy
    current,    \* current[r]: the copy is the latest version
    cap,        \* cap[w]: spec.maxWakeDuration
    scheduled,  \* scheduled[w]: the schedule says asleep
    up,         \* the controller runs
    queued, due, failed, phase,    \* of each window, as in Schedule
    pass        \* the pass in progress, or None

vars == <<server, age, cache, current, cap, scheduled, up, queued, due, failed, phase,
          pass>>

\* A pass: its window, the status writes it has yet to send, those whose version
\* is still the one that was read, and what it will report and ask for at the end.
Pass == [window : Windows, writes : [Requests -> Object \union {None}],
         valid : SUBSET Requests, phase : Phases, left : Int, age : 0 .. MaxPass,
         fresh : BOOLEAN]

ASSUME NoneAssumption == None \notin Object /\ None \notin Pass

TypeOK ==
    /\ server \in [Requests -> Object \union {None}]
    /\ age \in [Requests -> 0 .. AgeBound]
    /\ cache \in [Requests -> Object \union {None}]
    /\ current \in [Requests -> BOOLEAN]
    /\ cap \in [Windows -> Caps]
    /\ scheduled \in [Windows -> BOOLEAN]
    /\ up \in BOOLEAN
    /\ queued \in [Windows -> BOOLEAN] /\ failed \in [Windows -> BOOLEAN]
    /\ due \in [Windows -> (Nat \ {0}) \union {None}]
    /\ phase \in [Windows -> Phases]
    /\ pass \in Pass \union {None}

-----------------------------------------------------------------------------
\* A boundary of the schedule that is not near.
Far == MaxGap + MaxPass

\* Mutant: no expiry is waited for.
NoExpiry(lefts) == Far

\* The smaller of Far and what is left of the request that lapses first.
EarliestExpiry(lefts) ==
    CHOOSE x \in lefts \union {Far} : \A y \in lefts \union {Far} : x <= y

PhaseOf(asleep, awakened) ==
    IF ~asleep THEN "Awake" ELSE IF awakened THEN "WakeRequested" ELSE "Asleep"

Init ==
    /\ server = [r \in Requests |-> None]
    /\ age = [r \in Requests |-> 0]
    /\ cache = server
    /\ current = [r \in Requests |-> TRUE]
    /\ cap \in [Windows -> Caps]
    /\ scheduled \in [Windows -> BOOLEAN]
    /\ up = TRUE
    /\ queued = [w \in Windows |-> TRUE]
    /\ due = [w \in Windows |-> None]
    /\ failed = [w \in Windows |-> FALSE]
    /\ phase = [w \in Windows |-> ""]
    /\ pass = None

-----------------------------------------------------------------------------
(* The controller.                                                          *)

\* Mutants: the zero time is written too; the phase is not compared, or nothing is.
JudgedZero(obj, w, verdict) ==
    [obj EXCEPT !.phase = verdict,
                !.window = w,
                !.expiresAfter = IF verdict = "Rejected" THEN 0 ELSE obj.duration]
DiffersByWindow(obj, w, verdict) == obj.window # w
DiffersAlways(obj, w, verdict) == TRUE

\* The request as recordWakeRequest writes it back.
Judged(obj, w, verdict) ==
    [obj EXCEPT !.phase = verdict,
                !.window = w,
                !.expiresAfter = IF verdict = "Rejected" THEN @ ELSE obj.duration]

\* A status that already says so is not written.
Differs(obj, w, verdict) == obj.phase # verdict \/ obj.window # w

\* evaluateWakeRequests lists the requests and judges each as of one moment; the
\* phase and the next look follow from the verdicts.
BeginPass(w) ==
    /\ up /\ queued[w] /\ pass = None
    /\ queued' = [queued EXCEPT ![w] = FALSE]
    /\ LET listed     == {r \in Requests : cache[r] # None}
           verdict(r) == Classify(cache[r].duration, cap[w], age[r])
           active     == {r \in listed : verdict(r) = "Active"}
           differing  == {r \in listed : Differs(cache[r], w, verdict(r))}
       IN pass' = [window |-> w,
                   writes |-> [r \in Requests |-> IF r \in differing
                                 THEN Judged(cache[r], w, verdict(r)) ELSE None],
                   valid |-> {r \in differing : current[r]},
                   phase |-> PhaseOf(scheduled[w], active # {}),
                   left |-> EarliestExpiry({cache[r].duration - age[r] : r \in active}),
                   age |-> 0, fresh |-> TRUE]
    /\ UNCHANGED <<server, age, cache, current, cap, scheduled, up, due, failed, phase>>

RecordForced(r) ==        \* mutant: the write carries no resourceVersion
    /\ pass # None
    /\ pass.writes[r] # None
    /\ server[r] # None
    /\ server' = [server EXCEPT ![r] = pass.writes[r]]
    /\ current' = [current EXCEPT ![r] = FALSE]
    /\ pass' = [pass EXCEPT !.writes[r] = None, !.valid = @ \ {r}]
    /\ UNCHANGED <<age, cache, cap, scheduled, up, queued, due, failed, phase>>

\* One status write.  A conflict is taken for done: whoever wrote first, the watch
\* brings the windows back.
Record(r) ==
    /\ pass # None
    /\ pass.writes[r] # None
    /\ server[r] # None
    /\ IF r \in pass.valid
       THEN /\ server' = [server EXCEPT ![r] = pass.writes[r]]
            /\ current' = [current EXCEPT ![r] = FALSE]
       ELSE UNCHANGED <<server, current>>
    /\ pass' = [pass EXCEPT !.writes[r] = None, !.valid = @ \ {r}]
    /\ UNCHANGED <<age, cache, cap, scheduled, up, queued, due, failed, phase>>

FinishPassForGood ==      \* mutant: the pass asks for no other
    /\ pass # None
    /\ \A r \in Requests : pass.writes[r] = None
    /\ phase' = IF pass.fresh THEN [phase EXCEPT ![pass.window] = pass.phase] ELSE phase
    /\ failed' = [failed EXCEPT ![pass.window] = FALSE]
    /\ pass' = None
    /\ UNCHANGED <<server, age, cache, current, cap, scheduled, up, queued, due>>

\* The rest of the pass, and the delay to the next one.
FinishPass ==
    /\ pass # None
    /\ \A r \in Requests : pass.writes[r] = None
    /\ phase' = IF pass.fresh THEN [phase EXCEPT ![pass.window] = pass.phase] ELSE phase
    /\ due' = [due EXCEPT ![pass.window] = Requeued(@, RequeueAfter(pass.left))]
    /\ failed' = [failed EXCEPT ![pass.window] = FALSE]
    /\ pass' = None
    /\ UNCHANGED <<server, age, cache, current, cap, scheduled, up, queued>>

EndQuietly ==             \* mutant: the error is not returned
    /\ failed' = [failed EXCEPT ![pass.window] = TRUE]
    /\ pass' = None
    /\ UNCHANGED <<server, age, cache, current, cap, scheduled, up, queued, due, phase>>

\* The pass ends in an error and is retried with backoff.
EndInError ==
    /\ \E backoff \in 1 .. MaxBackoff :
          due' = [due EXCEPT ![pass.window] = Requeued(@, backoff)]
    /\ failed' = [failed EXCEPT ![pass.window] = TRUE]
    /\ pass' = None
    /\ UNCHANGED <<server, age, cache, current, cap, scheduled, up, queued, phase>>

\* Writing the status of a request that was deleted: the requests after it in the
\* list, and the workloads, wait for the retry.
RecordMissing(r) ==
    /\ pass # None
    /\ pass.writes[r] # None
    /\ server[r] = None
    /\ EndInError

\* Any other error of the pass, in the requests or later.
FailPass ==
    /\ "fault" \in Disturbances
    /\ pass # None
    /\ EndInError

Crash ==
    /\ "crash" \in Disturbances
    /\ up
    /\ up' = FALSE
    /\ pass' = None
    /\ queued' = [w \in Windows |-> FALSE]
    /\ due' = [w \in Windows |-> None]
    /\ failed' = [w \in Windows |-> FALSE]
    /\ UNCHANGED <<server, age, cache, current, cap, scheduled, phase>>

\* The new process lists everything before its first pass.
Restart ==
    /\ ~up
    /\ up' = TRUE
    /\ cache' = server
    /\ current' = [r \in Requests |-> TRUE]
    /\ age' = [r \in Requests |-> IF server[r] = None THEN 0 ELSE age[r]]
    /\ queued' = [w \in Windows |-> TRUE]
    /\ UNCHANGED <<server, cap, scheduled, due, failed, phase, pass>>

DeliverUnwatched(r) ==    \* mutant: WakeRequests are cached, not watched
    /\ up
    /\ ~current[r]
    /\ cache' = [cache EXCEPT ![r] = server[r]]
    /\ current' = [current EXCEPT ![r] = TRUE]
    /\ age' = [age EXCEPT ![r] = IF server[r] = None THEN 0 ELSE @]
    /\ UNCHANGED <<server, cap, scheduled, up, queued, due, failed, phase, pass>>

DeliverOnlyEdits(r) ==    \* mutant: the watch passes over changes of the status
    /\ up
    /\ ~current[r]
    /\ cache' = [cache EXCEPT ![r] = server[r]]
    /\ current' = [current EXCEPT ![r] = TRUE]
    /\ age' = [age EXCEPT ![r] = IF server[r] = None THEN 0 ELSE @]
    /\ queued' = [w \in Windows |-> queued[w] \/ server[r] = None \/ cache[r] = None
                                     \/ server[r].duration # cache[r].duration]
    /\ UNCHANGED <<server, cap, scheduled, up, due, failed, phase, pass>>

\* A request's latest version reaches the cache, and the watch (windowsInNamespace)
\* enqueues every window of the namespace.
Deliver(r) ==
    /\ up
    /\ ~current[r]
    /\ cache' = [cache EXCEPT ![r] = server[r]]
    /\ current' = [current EXCEPT ![r] = TRUE]
    /\ age' = [age EXCEPT ![r] = IF server[r] = None THEN 0 ELSE @]
    /\ queued' = [w \in Windows |-> TRUE]
    /\ UNCHANGED <<server, cap, scheduled, up, due, failed, phase, pass>>

\* One unit passes; a queued window and an idle worker do not wait for it.
Tick ==
    /\ ~(up /\ pass = None /\ \E w \in Windows : queued[w])
    /\ pass # None => pass.age < MaxPass
    /\ age' = [r \in Requests |-> IF cache[r] = None /\ server[r] = None THEN 0
                                  ELSE IF age[r] < AgeBound THEN age[r] + 1 ELSE AgeBound]
    /\ queued' = [w \in Windows |-> queued[w] \/ Ended(due[w])]
    /\ due' = [w \in Windows |-> Elapsed(due[w])]
    /\ pass' = IF pass = None THEN None ELSE [pass EXCEPT !.age = @ + 1, !.left = @ - 1]
    /\ UNCHANGED <<server, cache, current, cap, scheduled, up, failed, phase>>

-----------------------------------------------------------------------------
(* Everyone else.  A version that somebody writes is not the one a pass read. *)

Written(r, obj) ==
    /\ server' = [server EXCEPT ![r] = obj]
    /\ current' = [current EXCEPT ![r] = FALSE]
    /\ pass' = IF pass = None THEN None ELSE [pass EXCEPT !.valid = @ \ {r}]

Create(r) ==
    /\ "create" \in Disturbances
    /\ server[r] = None /\ cache[r] = None /\ current[r]
    /\ pass # None => pass.writes[r] = None
    /\ \E n \in Durations :
          Written(r, [duration |-> n, phase |-> "", window |-> None, expiresAfter |-> None])
    /\ age' = [age EXCEPT ![r] = 0]
    /\ UNCHANGED <<cache, cap, scheduled, up, queued, due, failed, phase>>

Delete(r) ==
    /\ "delete" \in Disturbances
    /\ server[r] # None
    /\ Written(r, None)
    /\ UNCHANGED <<age, cache, cap, scheduled, up, queued, due, failed, phase>>

EditDuration(r) ==
    /\ "edit" \in Disturbances
    /\ server[r] # None
    /\ \E n \in Durations \ {server[r].duration} :
          Written(r, [server[r] EXCEPT !.duration = n])
    /\ UNCHANGED <<age, cache, cap, scheduled, up, queued, due, failed, phase>>

\* The window itself changes, by hand or by its schedule, and is looked at again.
Reenqueued(w) == queued' = IF up THEN [queued EXCEPT ![w] = TRUE] ELSE queued

EditCap(w) ==
    /\ "cap" \in Disturbances
    /\ \E n \in Caps \ {cap[w]} : cap' = [cap EXCEPT ![w] = n]
    /\ Reenqueued(w)
    /\ pass' = IF pass # None /\ pass.window = w THEN [pass EXCEPT !.fresh = FALSE] ELSE pass
    /\ UNCHANGED <<server, age, cache, current, scheduled, up, due, failed, phase>>

Boundary(w) ==
    /\ "boundary" \in Disturbances
    /\ scheduled' = [scheduled EXCEPT ![w] = ~@]
    /\ Reenqueued(w)
    /\ UNCHANGED <<server, age, cache, current, cap, up, due, failed, phase, pass>>

-----------------------------------------------------------------------------
System == \/ \E w \in Windows : BeginPass(w)
          \/ \E r \in Requests : Record(r) \/ RecordMissing(r) \/ Deliver(r)
          \/ FinishPass \/ Restart \/ Tick

Environment == \/ FailPass \/ Crash
               \/ \E r \in Requests : Create(r) \/ Delete(r) \/ EditDuration(r)
               \/ \E w \in Windows : EditCap(w) \/ Boundary(w)

Next == System \/ Environment

Spec == Init /\ [][Next]_vars

\* As in Schedule; the queue is first in first out, and a watch delivers.
Fairness ==
    /\ \A w \in Windows : SF_vars(BeginPass(w))
    /\ \A r \in Requests : /\ WF_vars(Record(r)) /\ WF_vars(RecordMissing(r))
                           /\ WF_vars(Deliver(r))
    /\ WF_vars(FinishPass) /\ WF_vars(Restart) /\ WF_vars(Tick)

FairSpec == Spec /\ Fairness

-----------------------------------------------------------------------------
(* Safety: how late a verdict may be.                                       *)

Lateness == IF Margin > MaxPass + MinGap THEN Margin ELSE MaxPass + MinGap

\* Nothing is under way or on its way.
AtRest == /\ up /\ pass = None
          /\ \A w \in Windows : ~queued[w] /\ ~failed[w]
          /\ \A r \in Requests : current[r]

\* What was true of a request at some moment of the last Lateness units.
Lately(r, is(_)) == \E k \in 0 .. Lateness : k <= age[r] /\ is(age[r] - k)

\* Every request's status is the verdict as of a moment ago: none is unanswered,
\* none is still Active long after it lapsed, and a dropped or failed write is made
\* good.  (Windows of one namespace that disagree never rest: then it says nothing.)
AnsweredInTime == AtRest =>
    \A w \in Windows, r \in Requests : server[r] # None =>
        \/ age[r] = AgeBound
        \/ LET isVerdict(t) == server[r].phase = Classify(server[r].duration, cap[w], t)
           IN Lately(r, isVerdict)

\* The namespace is held awake by a request that holds, or that lapsed a moment
\* ago: not until the next boundary, nor until the next routine look.
HeldByARequest == AtRest =>
    \A w \in Windows : phase[w] = "WakeRequested" =>
        \E r \in Requests :
            /\ server[r] # None /\ age[r] < AgeBound
            /\ LET holds(t) == Classify(server[r].duration, cap[w], t) = "Active"
               IN Lately(r, holds)

\* A request that holds is not ignored either.
HoldsAreHonoured == AtRest =>
    \A w \in Windows :
        (\E r \in Requests : /\ server[r] # None
                             /\ Classify(server[r].duration, cap[w], age[r]) = "Active")
        => phase[w] # "Asleep"

\* Why the three hold.  What a pass lists and concludes stays true until it is over,
\* and what it leaves behind until the next, unless something has happened that brings
\* the window back; and the wait for that next pass ends before a lapse is long past.
Undisturbed(w) == up /\ ~queued[w] /\ \A r \in Requests : current[r]

\* What w makes of r at age t.
Ruling(r, w, t) == Classify(server[r].duration, cap[w], t)

Concluded(r) ==
    LET began == age[r] - pass.age IN
    /\ began >= 0
    /\ pass.writes[r] = None => server[r].phase = Ruling(r, pass.window, began)
    /\ Ruling(r, pass.window, began) = "Active" =>
          pass.left <= server[r].duration - age[r] /\ pass.phase # "Asleep"

PassInv == pass # None /\ Undisturbed(pass.window) =>
    /\ pass.fresh
    /\ \A r \in Requests : pass.writes[r] # None => r \in pass.valid
    /\ \A r \in Requests : server[r] # None => age[r] = AgeBound \/ Concluded(r)
    /\ pass.phase = "WakeRequested" =>
          \E r \in Requests : /\ server[r] # None /\ age[r] < AgeBound
                              /\ Ruling(r, pass.window, age[r] - pass.age) = "Active"

LapseIsAwaited(r, w) ==
    /\ Ruling(r, w, 0) = "Active"
    /\ due[w] # None /\ age[r] + due[w] <= server[r].duration + Lateness

RestInv(w) ==
    Undisturbed(w) /\ ~failed[w] /\ (pass # None => pass.window # w) =>
        /\ \A r \in Requests : server[r] # None =>
              \/ age[r] = AgeBound
              \/ server[r].phase = "Active" /\ LapseIsAwaited(r, w)
              \/ server[r].phase # "Active" /\ server[r].phase = Ruling(r, w, age[r])
        /\ \A r \in Requests : server[r] # None /\ Ruling(r, w, age[r]) = "Active"
              => phase[w] # "Asleep"
        /\ phase[w] = "WakeRequested" =>
              \E r \in Requests : server[r] # None /\ LapseIsAwaited(r, w)

VerdictInv == /\ \A r \in Requests : current[r] => cache[r] = server[r]
              /\ pass # None => up
              /\ PassInv
              /\ \A w \in Windows : RestInv(w)

-----------------------------------------------------------------------------
(* What whoever asked may rely on.                                          *)

Promise == INSTANCE Leases
           WITH Lag   <- MaxPass,
                lease <- [r \in Requests |->
                    IF server[r] = None THEN None
                    ELSE [duration |-> server[r].duration, phase |-> server[r].phase,
                          expiresAfter |-> server[r].expiresAfter, age |-> age[r]]]

ASSUME NoLeaseAssumption == None \notin Promise!Lease

\* The controller implements Leases: no verdict is on an earlier version of the
\* request, none undoes an edit or brings a deleted request back, and no exception that
\* has ended holds again unless somebody lengthens it.
KeepsLease == Promise!Spec

\* Why: what a pass is about to write, and may, is a verdict on the request as it is,
\* of the moment the pass began; and one that has Expired then had.
Late(r, t) == server[r].phase = "Expired" =>
                  server[r].expiresAfter # None /\ server[r].expiresAfter <= t

WriteInv ==
    /\ \A r \in Requests : server[r] # None => Late(r, age[r])
    /\ pass # None => \A r \in pass.valid :
          /\ server[r] # None /\ age[r] - pass.age >= 0
          /\ Late(r, age[r] - pass.age)
          /\ \E n \in Caps : pass.writes[r] =
                Judged(server[r], pass.window,
                       Classify(server[r].duration, n, age[r] - pass.age))

\* A status that is written says something new of its request, if one window speaks for
\* the namespace.  (With two, each writes its name over the other's.)
SaysSomethingNew ==
    [][\A r \in Requests : Record(r) /\ r \in pass.valid
                           => server'[r].phase # server[r].phase]_vars

\* Why: only a verdict comes with a window's name, and a write that may land differs.
NewsInv ==
    /\ \A r \in Requests :
          server[r] # None => (server[r].phase = "" <=> server[r].window = None)
    /\ pass # None => \A r \in pass.valid :
          pass.writes[r] # None /\ Differs(server[r], pass.window, pass.writes[r].phase)

-----------------------------------------------------------------------------
(* Liveness, once the environment is quiet.                                 *)

Quiet == <>[][System]_vars

\* Nobody has to remember to put the namespace away again: every exception ends by
\* itself, through crashes, failed writes and edits.
GoesBackToSleep ==
    Quiet => <>[](\A w \in Windows : scheduled[w] => phase[w] = "Asleep")

\* With one window in the namespace the statuses are written only to say something
\* new: no write brings on, through the watch, a pass that writes again.
StatusSettles == Quiet => <>[][\A r \in Requests : ~Record(r)]_vars

\* Every request gets an answer; Rejected is one that "no window covers".
EveryoneIsAnswered ==
    Quiet => <>[](\A r \in Requests : server[r] # None => server[r].phase # "")
=============================================================================
