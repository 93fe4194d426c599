# platform-lab in TLA+

A specification of the idle-reaper operator and its neighbours, kept beside the
code it models. The modules are translated from the Go source; TLC checks them
on small instances and TLAPS proves the most important results for every value
of the constants. Paths below are relative to `src/`; `C` stands for
`operators/idle-reaper/internal/controller`.

## 1. The system

idle-reaper is a Kubernetes controller. An `IdleWindow` declares when the
Deployments of a namespace are idle; the controller lowers them then and gives
them their size back afterwards. A `WakeRequest` asks for an exception. A chat
bot, slack-waker, raises WakeRequests. job-runner is a small HTTP service that
serves as a workload in the lab.

| component | state it keeps | operations | what makes it correct |
|---|---|---|---|
| workload reconciliation (`C/idlewindow_controller.go`) | three annotations and the replica count on each Deployment; nothing in the process | a pass: read window, clock, requests, Deployments, HPAs; for each Deployment skip, stand down, `scaleTo`, `restoreTo` or `clearAnnotations`; write status | the size to restore is never lost or replaced; people's counts stand; the cluster converges |
| schedule and requeueing (`C/window.go`, `SetupWithManager`) | none; the work queue holds the next look | `evaluateWindow`, `requeueAfter` | the verdict is the window's; the next look is always arranged and comes soon after a boundary |
| wake requests (`C/wakerequest.go`) | phase, window and expiry in each request's status | list, classify, record one by one; hold the namespace awake | every request is answered, none holds longer than it should, the namespace goes back to sleep |
| reporting (`C/idlewindow_controller.go`, `C/metrics.go`) | conditions and counters in the window's status; Prometheus series in the process | `setReady`, `setUnblocked`, `writeStatus`, `publishMetrics`, `forgetMetrics` | status and series come to say what is so; a deleted window leaves no series; an Event is emitted when the answer changes and only then |
| node census (`C/nodes.go`, `pdbsBlockingDrain`) | none | count workers, drainable nodes, blocking budgets | counts match the definition |
| slack-waker (`tools/slack-waker/main.go`) | none; one command at a time | acknowledge, create a request, await the verdict, reply | the reply repeats what the cluster decided |
| job-runner (`apps/job-runner/main.go`) | a slice of jobs | create, list | IDs are unique, no job is lost |
| manager wiring, generated API code, manifests, scripts, tests | | | not part of the behaviour modelled |

How they interact. The API server is the only shared state. Informers copy
Deployments, windows, requests and HPAs into the controller's cache, some time
after the fact; watches on windows, Deployments and requests put windows into
the work queue, one entry per window; one worker takes them in turn. A pass
reads the cache and writes through the API server: merge patches without a
resourceVersion for Deployments, full updates with one for statuses. Whatever
else writes Deployments (people, GitOps, autoscalers) does so between any two
steps. slack-waker meets the controller only through WakeRequest objects.

What is hard: a pass works from copies that may be older than what it patches;
a pass may be cut short by an error or a crash after any of its writes; two
windows may select one Deployment; a request may be edited or deleted while a
pass is judging it; a boundary of the schedule or an expiry may fall while a
pass runs; and there is nothing to remember any of it but the objects
themselves. The hazards, each at its line, are in `PROJECT.json`.

## 2. Modules

| module | what it is |
|---|---|
| `WorkloadScaling` | passes of `Reconcile` over Deployments, with a cache that trails the server |
| `Custody` | abstract: what the operator promises about a workload's size |
| `WorkloadScalingProofs` | theorems about `WorkloadScaling` and its refinement of `Custody` |
| `WholePassesProofs` | theorems about what whole passes achieve and whole nights keep |
| `Requeue` | `requeueAfter` and the work queue's delayed adds; shared by the next two |
| `Schedule` | `evaluateWindow` and the loop that brings a window back |
| `ScheduleProofs` | theorems about `Schedule` |
| `Judgement` | `classifyWakeRequest`; shared by the next two |
| `Leases` | abstract: what becomes of WakeRequests, as whoever asked sees it |
| `WakeRequests` | requests judged, recorded and held, by the windows of one namespace |
| `WakeRequestsProofs` | theorems about `WakeRequests` and its refinement of `Leases` |
| `NodeCensus` | `countDrainableNodes`, `podHoldsNode`, `pdbsBlockingDrain` as operators |
| `Reporting` | what a pass says: status, conditions, Events, series |
| `ReportingProofs` | theorems about `Reporting` and the census |
| `SlackWaker` | the chat bot, beside the cluster of `Leases`: commands, the wait for a verdict, replies |
| `SlackWakerProofs` | theorems about `SlackWaker`, and that it keeps to `Leases` |
| `MCWorkloadScaling`, `MCSchedule`, `MCWakeRequests`, `MCReporting` | constant values for the runs |

### WorkloadScaling

`server[d]` is the Deployment (`spec.replicas` and the annotations saved,
applied, owned-by; `None` is an absent annotation), `cache[d]` the informer's
copy and `feed[d]` the versions in between. `pass` is the stack of the running
`Reconcile`: the window as read, the verdict, the copies it will patch from, the
tally. `BeginPass` is every read of `Reconcile` up to the loop;
`ReconcileDeployment` is one call of `reconcileDeployment` with the patch it
sends; `Complete` and `AbortPass` are its two ends; `SkipSuspended` is the early
return for `spec.suspend`. `Desired` is what `reconcileDeployment` wants the
object to be, `Patched` what the merge patch of that wish makes of whatever the
server holds by then: only the fields that differ from the copy are sent.
The other actions are the world: `Scale`, `Strip`, `EditSpec`, `Boundary`,
`WakeFlip`, `ToggleHPA`, `Crash`, a lost patch. `Disturbances` says which of them
a run or a theorem admits.

`PromptCache` is the assumption that a pass does not start while one of the
controller's own writes to a Deployment it selects is still on its way to the
cache. The code does nothing to ensure it: it is usual, because the pass that
matters is mostly set off by the watch event of that very write, and not
guaranteed. Results that need it say so; `ws_v_stranded` shows what happens without.

`held[d]` is a history variable: the count in force was put there by a
scale-down. It is what makes "stranded" a statement about the count and the
record together.

`HoldsTillMorning` looks at a whole night: `PersonHolds(d)` is that the count on `d` is a
person's while every window that manages it sleeps, respects people and has the floor in
force. `PassesSettle` looks at whole passes: `OnCourse(w)` is that what the pass of `w`
is about to do is what is still to be done, `Telling(w)` that what it will say is so,
`AtRest(d)` that no window wants `d` any different.

Left out: an absent `spec.replicas` (read as 1), annotations that do not parse
(read as absent), a selector that does not parse and a schedule that does not
(both leave the workloads alone, as suspension does), Deployments that are
deleted, and the lag of the windows' own cache, whose one effect here is a
status write dropped for a conflict.

### Custody

Each workload has a size it is owed, a count, and a mark whether the count is the
operator's doing. A step may lower a workload to some window's floor, restore it,
let somebody else write, or take somebody's count for the new size; never while
the workload is lowered. `WorkloadScaling` implements it with
`size[d]` = the size as the controller knows it (`Known`): from the copy the pass
in progress works from, else from its own last write on the way to the cache,
else from the cache. With people's writes under way, no function of the server's
object alone would do: the controller adopts a person's count when the news of it
arrives.

### Requeue and Schedule

Time is discrete and circular, a cron expression the set of units at which it
fires (the empty set parses and never fires; `schedule = None` does not parse).
`Evaluate` is `evaluateWindow`, `RequeueAfter` is `requeueAfter`, with the zero
time as `None`, before every other. The queue's wait is `due`, units until the
window is queued again; `AddAfter` keeps the earlier of two waits. A pass lasts at
most `MaxPass` units and asks for its delay by the clock at its end. Errors are
retried after any backoff up to `MaxBackoff`.

### WakeRequests

Time is the age of each request. `BeginPass(w)` lists the requests, classifies
each and decides the phase and the deadline; the status writes follow one by one
(`Record`), each valid only while nobody wrote since the copy was read, an
invalid one dropped, one for a deleted request ending the pass in an error
(`RecordMissing`). `Deliver` brings a version to the cache and queues every
window of the namespace. `Boundary` changes what the schedule says and queues the
window in one step: how much later than the boundary a window is queued is the subject
of `Schedule`, so the bounds here count from that moment. The phase of a window is what the rest of the pass
writes in its status. Wording, the Accepted condition and Events are left out:
condition and Event change exactly when the phase is written.

### Leases

A request, its status and its age, and nothing else: no windows, copies, passes or
versions. Somebody creates, edits or deletes one; time passes; and at any moment the
cluster may `Rule`. A ruling is `Classify` of the request as it stands, under some cap,
at some moment at most `Lag` back (`Rulings`); and one that has Expired does not hold
again unless it has been lengthened, whatever cap or clock is used. `WakeRequests`
implements it with `lease[r]` = the server's object and its age, and `Lag` = the longest
pass. That an Expired request stays so is not a guard of the code, which compares a
clock read at the beginning of the pass: it follows because a write is accepted only if
nobody wrote since the copy was read.

### NodeCensus and Reporting

`NodeCensus` holds the functions of one listing: which nodes are workers, which
pods hold a node, which budgets refuse an eviction. `Reporting` is the pass again,
from the side of what it says. `spec[w]` and `stored[w]` are the IdleWindow in the
API server, `seen[w]` the copy in the cache and `current[w]` whether it is the
latest. The early returns of `Reconcile` are `Forget`, `Suspend`, `Reject` and
`MisSelect`; `Survey` is a pass up to the end of the loop over the workloads;
`ListNodes`, `ListPods` and `SetConditions` are the listings and `setUnblocked`,
`WriteStatus` is `writeStatus` with its dropped conflicts, `Publish` is
`publishMetrics` and the delay. `ReadFails`, `ListFails` and `WriteFails` are the
errors in between; a write that failed may have been carried out.

`series[w]` are the labelled series, `gauges` the two of the cluster. `told[w]` is a
history variable: what the last Event about blockers said, and a bit that changes with
every Event. Sums and counts are kept as the sets they are taken over, so that two
different facts with the same count are two; the message of `Unblocked` is the
sequence of the blockers it joins, in the order of the listing: workloads, each with
the reason it is passed over (`Exempt`), and then budgets. The cache lists what
it holds by walking Go maps, so any order may come (`Orders`).

Abstracted: replica counts (in `WorkloadScaling`), the clock (in `Schedule`), where
verdicts come from (`Boundary` changes them), the caches of Deployments, nodes, pods
and budgets (what the model holds is what they hold), `activeWakeRequests` and the two
transition times.

`Truthful(w)` is what status and series of `w` should say, from a definition of its own of
workers, idle nodes and refusing budgets. `OnTrack(w)` is that what the pass of `w` has
found out so far is so, `Tells(w)` that the truth has been told and the pass in progress
will not untell it.

### SlackWaker

`inbox` is the channel of Socket Mode events, `bot` the command `handleEvents` has
in hand: its author being looked up, created, looked at, between two looks, or
replied to. `Take` is the acknowledgement and the two early returns of `handleWake`;
`DescribeUser` is the call that asks Slack who typed the command, whose failure is
covered up; `Create`, `CreateDenied` and `CreateUnclear` are the outcomes of the create
call; `ReadVerdict` and `ReadNothing` are one turn of the loop in `awaitVerdict`;
`Post` is the reply. `CreateUnclear` covers an answer that was lost, which leaves a
request behind although the person hears that the cluster could not be reached.

One unit of time is the interval between two looks. A call may last up to
`CallTime` units and finishes between two ticks; `waited` and `call` are how long
the wait and the call under way have lasted. The cluster is `Leases` with `request`
for its variable: `Rule`, `EditOrDelete` and the passing of time are its actions, and
since `WakeRequests` implements `Leases`, what holds of the bot beside it holds of the
bot beside the controller. A request may be judged at any time, or never.
`ruled[c]` is a history variable: what has been ruled on the request of `c`. The
bot keeps nothing on disk, so `Crash` loses the queue and the command in hand.

Left out: the texts, the labels, the expiry that is repeated, reading the
configuration, and reconnecting to Slack without a crash.

## 3. Runs

Passing, with the bounds and why they suffice:

- **ws_overlap**: one Deployment, two windows with different floors (0 and 1)
  and opposite views of manual scaling and HPAs, two sizes, up to two
  undelivered versions. Deployments do not interact except through the pass that
  walks them, so one shows every interleaving of one workload; two versions are
  enough for a pass to work from a copy two writes old. The
  record is never lost (`NeverStranded`), never half (`AnnotationsTogether`),
  never the operator's own count (`SavedIsAPersonsCount`); a person's count stands
  (`MidnightScaleWins`), for the rest of the night (`HoldsTillMorning`); `Custody` is
  implemented (`KeepsCustody`); and the inductive invariant of the proofs holds
  (`RecordInv`).
- **ws_settles**: one window, every disturbance but removing the record by hand,
  specs that are edited between respecting and overruling people, skipping and
  scaling HPA targets, and suspension. One undisturbed pass puts the workload in place,
  the next says so, and what is in place is not touched (`PassesSettle`); once the
  disturbances stop, workload and status settle where the spec wants them
  (`Converges`).
- **ws_together**: two windows of the default spec over one workload, and
  somebody who removes the saved annotation. Where the windows agree, the same.
- **sc_follows**: a cycle of 12 units and five pairs: a night, two short windows,
  one across the end of the cycle, one that never ends and one that never fires.
  Passes last up to a unit, and the margin is longer than that. The next look is
  always arranged (`NeverForgotten`), within the cap (`DriftIsLookedFor`), the
  phase in status is at most `Lateness` behind (`PhaseIsTimely`), and follows the
  schedule again for good after the last crash, error or edit (`KeepsFollowing`).
  For the pairs that alternate, the verdict that looks only ahead agrees with the
  definition that looks back (`ReadsTheSchedule`), and `next` is the moment it
  flips (`NextIsTheFlip`); five pairs are few, but these two are proved for all.
- **wr_settles**: one request, one window, durations 1 and 2, caps 0 and 1, a
  cap on the routine look that is longer than either: a lapse is noticed in time
  only because it is waited for. All disturbances. `AnsweredInTime`,
  `HeldByARequest`, `HoldsAreHonoured` bound how far status and phase trail the
  truth; `VerdictInv`, the inductive invariant of the proofs, is why. Once the
  disturbances stop, every exception ends (`GoesBackToSleep`), every request is
  answered (`EveryoneIsAnswered`) and no status is written again (`StatusSettles`).
  `Leases` is implemented (`KeepsLease`). One request is few, and a pass here lasts no
  time, but the safety properties and `KeepsLease` are proved for any number, and for
  passes of any length.
- **sw_replies**: two commands, so that one waits behind the other, in a mapped
  and an unmapped channel; one duration and caps 0 and 1, so that a request is granted or
  refused as the cap is, and edited to what it was (a second duration multiplies the
  states and nothing the bot does depends on it); a timeout of one
  interval and calls of up to one, so that a look can span the deadline.
  `WaitBound` is 7, one above the longest wait there is. Nobody is told of a verdict
  that was not given (`SaidIsWasRuled`), a refusal leaves nothing behind
  (`RefusalsLeaveNothing`), the wait ends on time whatever the cluster does
  (`AwaitedInTime`), an acknowledgement waits for the commands ahead and for
  nothing else (`AcknowledgedInTurn`), and everyone hears back, or the bot dies
  (`EveryoneHearsBack`).

- **rp_settles**: one window in any of four specs (managed, suspended, with a schedule
  or a selector that does not parse), all with the defaults of the CRD, one workload, one node, one pod, one budget, and
  up to three disturbances, of any kind. Three are enough for a deletion, a
  re-declaration and a crash, or for a failed write of a pass that an edit overtook;
  the safety properties are proved for any number. A fifth spec, whose
  `respectManualScale` is false, more than doubles the states; the run was made once with
  it, and the proofs are about either value. Between passes the series say what
  the status says (`SeriesMirrorStatus`), a deleted window leaves none
  (`NoGhostSeries`), no answer is stored that was not announced
  (`ChangesAreAnnounced`), and the inductive invariant holds (`ReportInv`). After the
  last disturbance status and series tell the truth about the cluster, compared with a
  definition of their own (`ReportsSettle`), and the Events end (`NewsEnds`). With no
  window declared and no disturbance left the system stops, so deadlock is allowed.

Violated, each a disagreement between the code and what is written about it:

- **ws_v_stranded** (`NeverStranded`, against `idlewindow_types.go:28-29`): a
  sleeping pass lowers a workload, a person scales it, a second pass that has seen
  neither lowers it again; when the versions arrive late, the morning's pass sees
  the person's count, stands down and clears the record of a Deployment that is at
  zero.
- **ws_v_fight** (`NoSilentFight`, against `idlewindow_types.go:41-42`): the
  owned-by annotation is written and never read.
- **ws_v_hpa** (`RestoredWhenAwake`, against `DESIGN.md:29`): the HPA check comes
  before the restore.
- **sc_v_pairs** (`ReadsAnyPair`, against `window.go:50`): "any pair of
  recurring schedules" has to be any pair that alternates.
- **rp_v_order** (`OneEventPerAnswer`, against `idlewindow_controller.go:453-454`):
  two workloads in the way, listed in another order by the next pass; the message
  differs, so the same fact is announced again, and the rewritten status brings the
  window back through its own watch: with two blockers there is no end to it.

Also found while modelling, and kept here without a run, because each is a remark on a
sentence of the documentation or needs a bound, a second window or a field that no run
has; where a property would have to exclude it, the hazard in `PROJECT.json` names none:

- a count that a person writes between the informer's copy and the first scale-down of
  the night is overwritten, and the size recorded is the one before it;
- with a stale copy alone, a person's count is overwritten at midnight
  (`README.md:76`); `MidnightScaleWins` fails as soon as `PromptCache` is given
  up, and, with it, for a window whose floor is not the one in force;
- a floor above the current count raises a workload (`scaleTo shrinks a workload`,
  `idlewindow_controller.go:327`);
- `affectedWorkloads` counts a workload whose patch failed (`idlewindow_types.go:177`);
- after the saved annotation alone is removed, `clearAnnotations` returns early and
  the window stands down for that workload in every later night (`README.md:77-78`);
- in a namespace without a window a request is never answered, although Rejected
  is documented as also meaning that (`wakerequest_types.go:34-35`);
- `expiresAt` keeps the old moment when the duration of an Active request is
  edited (`wakerequest_types.go:82`);
- the bot acknowledges "first", but only when the command ahead is done with, which
  may take the whole wait for a verdict and every call around it: longer than the
  three seconds Slack gives (`tools/slack-waker/main.go:87-90`). The bound of
  `AcknowledgedInTurn` is met exactly;
- a create whose answer is lost may have left a request that wakes the namespace,
  while the person hears that the cluster could not be reached
  (`tools/slack-waker/main.go:258-260`);
- a request that lapses before the bot's first look, or whose looks all fail, is
  reported as "not ruled on yet";
- two windows of one namespace rewrite the status of each request in turns for ever,
  each in its own name (`wakerequest.go:114`), each write bringing the other back
  through the watch; `StatusSettles` fails with two windows;
- a WakeRequest that comes and lapses in the middle of a night clears the record of a
  workload a person had scaled, and the rest of the same night lowers it again,
  although the person's count is to stand "for the remainder of the current window"
  (`idlewindow_types.go:137-140`); `HoldsTillMorning` has to leave WakeRequests out, and
  shows that they are, with edits and the person's own writes, all that ends the hold
  before the boundary does;
- `nextTransitionTime` is the first expiry even when other requests still hold, or
  when the phase does not change at it (`idlewindow_types.go:215`);
- `publishMetrics` "mirrors the status just written" (`metrics.go:99`) also after a
  write that was dropped; the edit it lost to brings the window back, and only then
  do the two agree again;
- an Event whose status write was dropped is not taken back when the blocker is gone
  by the next pass: the answer stored has not changed, so nothing is said;
- a schedule that cannot be read leaves the phase of before in the status and repeats
  its Event in every pass; a suspended window keeps its `Unblocked` condition, its
  counters and its series, and its `lastTransitionTime` says nothing of the suspension;
- `idlereaper_window_asleep` is 0 while a request holds the namespace awake, though its
  help text speaks of the idle window (`metrics.go:41-44`), and
  `idlereaper_scaled_workloads` also counts those a pass has just restored.

## 4. Fairness

The worker finishes the pass it started, the informer delivers every version,
the clock goes on, and a crashed controller is restarted: weak fairness of each.
A window's next pass gets strong fairness, because it competes with the other
windows for the one worker, and the work queue is first in, first out; that it
is asked for at all is what `Schedule` shows (`NeverForgotten`). Nothing is assumed
of the world: people, edits, boundaries, faults and crashes may stop or go on for
ever, and convergence is claimed for behaviours in which they stop (`Quiet`). In
`WorkloadScaling` a pass is always possible again; that rests on the requeueing
`Schedule` models.

In `Reporting` the same holds: strong fairness of the beginnings of a pass, weak
fairness of its continuation, of the end of a delay or a backoff, and of the watch.
The bound on disturbances (`MaxDisturbances`) takes the place of `Quiet` there.

Of the bot it is assumed that each of its calls returns, that the clock goes on and
that its Deployment restarts it. Kubernetes calls have a client timeout of ten
seconds; calls to Slack have none in this code, so that they return is an assumption.
Nothing is assumed of the controller: `EveryoneHearsBack` holds if it never rules.

## 5. Proofs

`WorkloadScalingProofs`, for any number of Deployments, windows, specs and sizes
and any lag:

- `TypeCorrect`: the type invariant, with no assumption on the disturbances.
- `DesiredIsIdempotent`: a repeated reconcile changes nothing.
- `RecordIsKept`: `RecordInv` always holds, assuming `PromptCache` and that nobody
  removes the record by hand. Neither "no workload is stranded" nor "the record is
  whole" is inductive: whether a patch leaves a sound record depends on the copy
  it was computed from. So the invariant speaks of every copy a pass works from or
  may yet work from: it carries the server's record, and the server's count unless
  somebody else wrote one since (`Agrees`). Copies older than the controller's
  last write are exempt, and `PromptCache` is what keeps passes away from them.
- `NothingStranded`, `RecordIsWhole`, `SizeIsAPersons`, `PeopleWin`: the safety
  properties of `ws_overlap` follow.
- `SizeNeverForgotten`: with any lag, when nobody else writes counts and the
  windows agree on the floor, the size a workload would be given back never
  changes. Every version anywhere has one of two forms (`TwoForms`), and a patch
  from either to either ends in one of them.
- `ImplementsCustody`: every step of the controller is, for each workload, one that
  `Custody` allows.

`WholePassesProofs`, under the same two assumptions:

- `TheNightIsThePersons` (`HoldsTillMorning`). A pass in progress may have read the
  workload before the person wrote, so it is not enough that a pass that sees the
  person's count stands down. But by `RecordInv` the record in its copy is the server's,
  and names the floor in force: whatever the count in the copy, the pass stands down or
  finds the workload in place, wishes for what it has read, and patches nothing
  (`HeldIsLeftAlone`). `Turn` states once what one turn of the loop does to its own
  workload and that it touches no other.
- `ConvergenceRestsOnPasses` (`PassesSettle`): an undisturbed pass that begins with
  nothing on its way leaves each of its workloads in place (`CourseIsKept`), the next one
  reports what is so (`TellingIsKept`), and no pass of any window moves a workload all are
  content with (`RestIsKept`). It needs that what is on its way to the cache ends in what
  the server holds (`FeedIsComplete`), and that a workload lowered by the operator
  has a record (`RecordInv`). With it, all that `Converges` leaves to TLC is that passes
  take place, which is what fairness says.

`ScheduleProofs`, for every cycle, every set of schedules and every bound:

- `TypeCorrect`, `AlwaysArranged` (`NeverForgotten`) and `DriftIsFound`
  (`DriftIsLookedFor`). The delay is at least `MinGap`, so never dropped by the queue,
  and at most `MaxGap`; every end of a pass arranges the next.
- `VerdictIsTheWindow` (`ReadsTheSchedule`) and `NextFlips` (`NextIsTheFlip`), for
  every pair of expressions that alternates. The code asks only when each fires next;
  what was last cannot be read from that unless the two take turns. If they do, the
  one that fires first from here is the one that did not fire last (`AheadIsBehind`),
  by following the last firing back and the next one forward a unit at a time
  (`LastRecedes`, `NextApproaches`).
- `PhaseTrails` (`PhaseIsTimely`): a window at rest shows the verdict of at most
  `Lateness` units ago, for every pair, alternating or not. The invariant carries what
  was read when the pass began (`PassFollows`), and after the pass that the wait ends
  at most `Lateness` after the moment the reading goes out of date (`PhaseFollows`);
  while nothing happens both come nearer together, one unit with each tick.

`SlackWakerProofs`, for any number of commands, any channels, durations and caps,
any pace of the controller and any length of a call:

- `TypeCorrect`, `RepliesAreTrue` (`SaidIsWasRuled`), `RefusedIsHarmless`
  (`RefusalsLeaveNothing`) and `WaitIsBounded` (`AwaitedInTime`), from one inductive
  invariant. What is said is decided before it is posted, and a request may be judged
  again or deleted in between, so the invariant speaks of the text in hand (`Hand`) as
  well as of the one posted (`Answers`); that a refusal leaves nothing behind needs
  that no command is in hand, or in the queue, twice (`Once`, `Waiting`), and the bound
  on the wait that a look starts at most one unit after the deadline (`Timely`).
- `BotOnlyAsks`: the bot and its cluster are a behaviour of `Leases`; the bot creates at
  most one request for a command and never touches it again. With `RequestsAreLeases`
  below, the two components meet at `Leases`: the one may assume no more of requests
  than the other is proved to do.
- `EveryoneGetsATurn` (`AcknowledgedInTurn`), for any finite number of commands. Whoever
  waits has waited at most the sum over the commands the bot is done with, each at its
  longest, and what the one in hand may have taken so far (`Allowance`). A tick adds
  one to both, and a reply turns what was spent into a full share.

`WakeRequestsProofs`, for any number of requests and windows, any durations, caps and
bounds:

- `TypeCorrect`, and `VerdictsHold`: `VerdictInv` always holds. How late a status may be
  is not inductive: it depends on what the pass saw and on what it will wait for. The
  invariant says what a pass in progress has concluded (`PassInv`) and what a window at
  rest has left behind (`RestInv`), both only while nothing is on its way that brings
  the window back (`Undisturbed`): every write by anybody else ends that. A verdict
  given at one age stays true until the request lapses, so what is left behind is
  either final or Active with its lapse waited for (`LapseIsAwaited`).
- `RequestsAreLeases` (`KeepsLease`): the controller implements `Leases`. The verdicts of a
  pass are computed when it begins and written one by one afterwards, while people edit
  and delete and time passes. `WriteInv` says of every write that may still land that it
  is the verdict on the object as it is, at the age it had when the pass began, and that
  nothing had Expired later than that (`Late`). Anybody else's write makes the pass's
  copy invalid, so only the pass's own write and the clock have to be followed
  (`WrittenKeeps`, `TickKeepsWrites`); a ruling then is one of `Rulings` because the pass
  is at most `MaxPass` old (`RecordRules`).
- `EveryWriteIsNews` (`SaysSomethingNew`, without a run of its own: `StatusSettles` checks
  what follows from it), for a namespace with one window: a status is never written to
  say the same phase again. `NewsInv` says that a write which may still land differs from
  what is stored; with one window the two can differ in the window's name only while
  the request has no phase. With two windows it is false: each writes its name over
  the other's.
- `EveryVerdictIsTimely` (`AnsweredInTime`), `NothingElseHolds` (`HeldByARequest`) and
  `WhoeverAsksIsHeard` (`HoldsAreHonoured`) follow: a wait that has not ended is not
  longer than the margin or the shortest gap allows.

`ReportingProofs`, for any number of windows, workloads, nodes, pods, budgets and
disturbances:

- `TypeCorrect`. That no count is negative needs that drainable nodes are counted among
  the workers, never by subtraction.
- `ReportsAgree`: `ReportInv` always holds. While nothing is on its way that brings the
  window back, the pass in progress works from the latest version and what it is about
  to publish is what is stored; a write that can still land carries the stored answer
  or the one announced.
- `SeriesFollowStatus`, `DeletedAreForgotten` and `NothingUnannounced` follow.
- `ReportsRestOnPasses` (`PassesTell`, for which there is no run of its own: `ReportsSettle`
  checks what follows from it): an undisturbed pass over a window whose workloads need no
  patch tells the truth, and the truth once told stays told through any passes that patch
  nothing, also one that begins with an older version of the status, and one that lists
  the same blockers in another order. The counts of `countDrainableNodes` are those of
  the definition (`CensusIsTrue`), and a listing without promised order still names every
  blocker (`OrderNames`). It is false of a pass whose patch fails, which counts the
  workload all the same.

Every safety and action property that a passing run checks is proved, and so are both
refinements. Model-checked only: liveness (`Converges`, `KeepsFollowing`, `GoesBackToSleep`, `EveryoneIsAnswered`,
`StatusSettles`, `EveryoneHearsBack`, `ReportsSettle`, `NewsEnds`), which is beyond the
prover.

## 6. Plan

1. A pass over a window of `WakeRequests`: that one undisturbed pass answers every request,
   as `PassesSettle` and `PassesTell` say of workloads and reports.
2. The promise of `Schedule` to the modules that take the next pass for granted: an
   abstract loop in which a pass comes at most so long after the verdict changes.
3. `Reporting` with `nextTransitionTime`, which needs the clock of `Schedule`.

## 7. Not modelled

- job-runner: two overlapping handlers race on the header of a slice, and Go promises
  nothing of the outcome, so no property holds of it beyond the first overlap; without
  overlap there is nothing hard in it.
- Manager wiring, generated code, manifests, scripts and document builders have no
  behaviour of their own at run time. What the wiring gives the rest (one worker,
  informer caches, a rate-limited queue) is in the modules that use it.
