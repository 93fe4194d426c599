------------------------------ MODULE SlackWaker ------------------------------
(***************************************************************************)
(* The chat bot.  A person types a command in a channel; the bot, which    *)
(* takes commands one at a time, acknowledges it, creates a WakeRequest in *)
(* the namespace the channel is mapped to, waits a while for the           *)
(* controller's verdict and posts what it read.                            *)
(*                                                                         *)
(* One unit of time is the interval between two looks at the request.  The *)
(* bot keeps nothing: what it had in hand or in its queue of events is     *)
(* gone when it dies.  What the controller and others make of a request is *)
(* what Leases says, which WakeRequests implements.                        *)
(***************************************************************************)
EXTENDS Judgement, Sequences, FiniteSets

CONSTANTS
    Commands,        \* the slash commands that may be typed
    Channels,        \* channels of the workspace
    Mapped,          \* the keys of CHANNEL_NAMESPACES
    Durations,       \* the durations people ask for
    Caps,            \* values of maxWakeDuration
    VerdictTimeout,  \* units awaitVerdict waits
    CallTime,        \* bound: units an API call may last
    AgeBound, Lag,   \* bounds of Leases: the age that counts, how late a verdict is
    WaitBound,       \* bound: a command that has waited longer has waited this long
    None

ASSUME CommandsAssumption == IsFiniteSet(Commands)
ASSUME MappedAssumption == Mapped \subseteq Channels
ASSUME TimeAssumption   == /\ VerdictTimeout \in Nat /\ CallTime \in Nat
                           /\ AgeBound \in Nat /\ WaitBound \in Nat /\ Lag \in Nat
ASSUME DurationAssumption ==
    Durations \subseteq 0 .. AgeBound /\ Caps \subseteq Nat /\ None \notin Durations

\* What parseCommand makes of a command; no duration when it cannot be read.
Ask == [channel : Channels, duration : Durations \union {None}]

\* What the bot says.
Refusals == {"unmapped", "usage", "denied"}
Texts    == Refusals \union {"unreachable", "awake", "refused", "pending"}

\* A command in hand: its author looked up, created, looked at, between two looks, or being
\* replied to; the units awaitVerdict and the call under way have lasted; the reply.
Stages   == {"describe", "create", "look", "sleep", "post"}
Handling == [command : Commands, stage : Stages,
             waited : Nat, call : 0 .. CallTime, text : Texts \union {None}]

VARIABLES
    up,        \* the bot runs and is connected
    ask,       \* ask[c]: the command as typed, or None
    unacked,   \* unacked[c]: units c has been waiting for its acknowledgement, 0 once it
               \* has it
    inbox,     \* events delivered to the bot and not yet taken
    bot,       \* the command in hand, or None
    said,      \* said[c]: the reply to c, "unheard" or "lost" without one, None before
    request,   \* request[c]: the WakeRequest created for c, or None
    ruled      \* history: ruled[c] are the verdicts there have been on it

vars == <<up, ask, unacked, inbox, bot, said, request, ruled>>

\* The requests of the namespace; each is known by the command it is for.
Cluster == INSTANCE Leases WITH Requests <- Commands, lease <- request
Object  == Cluster!Lease

ASSUME NoneAssumption == None \notin Ask \union Object \union Handling \union Texts

TypeOK ==
    /\ up \in BOOLEAN
    /\ ask \in [Commands -> Ask \union {None}]
    /\ unacked \in [Commands -> 0 .. WaitBound]
    /\ inbox \in Seq(Commands)
    /\ bot \in Handling \union {None}
    /\ said \in [Commands -> Texts \union {"unheard", "lost", None}]
    /\ request \in [Commands -> Object \union {None}]
    /\ ruled \in [Commands -> SUBSET Verdicts]

Init ==
    /\ up = TRUE
    /\ ask = [c \in Commands |-> None]
    /\ unacked = [c \in Commands |-> 0]
    /\ inbox = <<>>
    /\ bot = None
    /\ said = ask
    /\ request = ask
    /\ ruled = [c \in Commands |-> {}]

-----------------------------------------------------------------------------
(* The bot.                                                                 *)

At(c, stage)   == [command |-> c, stage |-> stage, waited |-> 0, call |-> 0, text |-> None]
Reply(c, text) == [At(c, "post") EXCEPT !.text = text]

\* The next event is acknowledged first of all; a command from an unmapped channel
\* and one that cannot be read go no further.
Take ==
    /\ up /\ bot = None /\ inbox # <<>>
    /\ inbox' = Tail(inbox)
    /\ LET c == Head(inbox)
       IN bot' = IF ask[c].channel \notin Mapped THEN Reply(c, "unmapped")
                 ELSE IF ask[c].duration = None THEN Reply(c, "usage")
                 ELSE At(c, "describe")
    /\ unacked' = [unacked EXCEPT ![Head(inbox)] = 0]
    /\ UNCHANGED <<up, ask, said, request, ruled>>

\* Slack is asked who typed the command; without an answer the handle will do.
DescribeUser ==
    /\ bot # None /\ bot.stage = "describe"
    /\ bot' = At(bot.command, "create")
    /\ UNCHANGED <<up, ask, unacked, inbox, said, request, ruled>>

Creating == bot # None /\ bot.stage = "create"

Stored(c) == request' = [request EXCEPT ![c] = Cluster!Asked(ask[c].duration)]

\* Mutant: success is reported on create.
CreateAndTell ==
    /\ Creating
    /\ Stored(bot.command)
    /\ bot' = Reply(bot.command, "awake")
    /\ UNCHANGED <<up, ask, unacked, inbox, said, ruled>>

Create ==
    /\ Creating
    /\ Stored(bot.command)
    /\ bot' = At(bot.command, "look")
    /\ UNCHANGED <<up, ask, unacked, inbox, said, ruled>>

\* The API server forbids it, finds it invalid or does not know the kind.
CreateDenied ==
    /\ Creating
    /\ bot' = Reply(bot.command, "denied")
    /\ UNCHANGED <<up, ask, unacked, inbox, said, request, ruled>>

\* Mutant: whatever goes wrong is put down to the API server's refusal.
CreateTakenForDenied ==
    /\ Creating
    /\ Stored(bot.command) \/ UNCHANGED request
    /\ bot' = Reply(bot.command, "denied")
    /\ UNCHANGED <<up, ask, unacked, inbox, said, ruled>>

\* No answer came, or one that says nothing about the request: it may exist.
CreateUnclear ==
    /\ Creating
    /\ Stored(bot.command) \/ UNCHANGED request
    /\ bot' = Reply(bot.command, "unreachable")
    /\ UNCHANGED <<up, ask, unacked, inbox, said, ruled>>

Looking == bot # None /\ bot.stage = "look"

TextOfRaw(phase) == phase      \* mutant: the phase is handed on as it is
TextOf(phase) == IF phase = "Active" THEN "awake" ELSE "refused"

\* awaitVerdict reads a verdict it repeats: Expired is not one of them.
ReadVerdict ==
    /\ Looking
    /\ request[bot.command] # None
    /\ request[bot.command].phase \in {"Active", "Rejected"}
    /\ bot' = Reply(bot.command, TextOf(request[bot.command].phase))
    /\ UNCHANGED <<up, ask, unacked, inbox, said, request, ruled>>

ReadNothingForever ==          \* mutant: a failed look is retried without the deadline
    /\ Looking
    /\ bot' = [bot EXCEPT !.stage = "sleep"]
    /\ UNCHANGED <<up, ask, unacked, inbox, said, request, ruled>>

\* There is no such verdict, or the look fails, which is not told apart.
ReadNothing ==
    /\ Looking
    /\ bot' = IF bot.waited > VerdictTimeout THEN Reply(bot.command, "pending")
              ELSE [bot EXCEPT !.stage = "sleep"]
    /\ UNCHANGED <<up, ask, unacked, inbox, said, request, ruled>>

PostRetrying ==                \* mutant: a failed post is tried again
    /\ bot # None /\ bot.stage = "post"
    /\ \/ said' = [said EXCEPT ![bot.command] = bot.text] /\ bot' = None
       \/ said' = said /\ bot' = [bot EXCEPT !.call = (@ + 1) % (CallTime + 1)]
    /\ UNCHANGED <<up, ask, unacked, inbox, request, ruled>>

\* A reply that cannot be posted is logged and forgotten.
Post ==
    /\ bot # None /\ bot.stage = "post"
    /\ \E outcome \in {bot.text, "unheard"} :
          said' = [said EXCEPT ![bot.command] = outcome]
    /\ bot' = None
    /\ UNCHANGED <<up, ask, unacked, inbox, request, ruled>>

Delivered(c) == \E i \in 1 .. Len(inbox) : inbox[i] = c
InHand(c)    == bot # None /\ bot.command = c

Crash ==
    /\ up
    /\ up' = FALSE
    /\ inbox' = <<>>
    /\ bot' = None
    /\ said' = [c \in Commands |-> IF Delivered(c) \/ InHand(c) THEN "lost" ELSE said[c]]
    /\ unacked' = [c \in Commands |-> 0]
    /\ UNCHANGED <<ask, request, ruled>>

Restart ==
    /\ ~up
    /\ up' = TRUE
    /\ UNCHANGED <<ask, unacked, inbox, bot, said, request, ruled>>

-----------------------------------------------------------------------------
(* The people, the cluster and the clock.                                   *)

\* Slack hands a command to a connected bot; without one it is refused at once.
Type(c) ==
    /\ up /\ ask[c] = None
    /\ \E a \in Ask : ask' = [ask EXCEPT ![c] = a]
    /\ inbox' = Append(inbox, c)
    /\ UNCHANGED <<up, unacked, bot, said, request, ruled>>

\* The controller gets round to judging a request.
Rule(c) ==
    /\ Cluster!Rule(c)
    /\ ruled' = [ruled EXCEPT ![c] = @ \union {request'[c].phase}]
    /\ UNCHANGED <<up, ask, unacked, inbox, bot, said>>

\* Somebody edits or deletes it.
EditOrDelete(c) ==
    /\ Cluster!Edit(c) \/ Cluster!Delete(c)
    /\ UNCHANGED <<up, ask, unacked, inbox, bot, said, ruled>>

\* An event is taken at once by a bot with nothing in hand, no call lasts longer
\* than CallTime, and a sleep lasts one unit.
Tick ==
    /\ ~(up /\ bot = None /\ inbox # <<>>)
    /\ bot # None => bot.stage = "sleep" \/ bot.call < CallTime
    /\ bot' = IF bot = None THEN None
              ELSE IF bot.stage = "sleep"
              THEN [bot EXCEPT !.stage = "look", !.call = 0, !.waited = @ + 1]
              ELSE [bot EXCEPT !.call = @ + 1,
                               !.waited = IF bot.stage = "look" THEN @ + 1 ELSE @]
    /\ unacked' = [c \in Commands |-> IF Delivered(c) /\ unacked[c] < WaitBound
                                      THEN unacked[c] + 1 ELSE unacked[c]]
    /\ Cluster!Age
    /\ UNCHANGED <<up, ask, inbox, said, ruled>>

-----------------------------------------------------------------------------
Look == ReadVerdict \/ ReadNothing

Next == \/ Take \/ DescribeUser \/ Create \/ CreateDenied \/ CreateUnclear \/ Look \/ Post
        \/ Crash \/ Restart \/ Tick
        \/ \E c \in Commands : Type(c) \/ Rule(c) \/ EditOrDelete(c)

Spec == Init /\ [][Next]_vars

\* Every call returns, the clock goes on and the Deployment restarts the bot.  Of the
\* controller nothing is assumed: it may never judge anything.
Fairness == /\ WF_vars(Take) /\ WF_vars(DescribeUser)
            /\ WF_vars(Create \/ CreateDenied \/ CreateUnclear)
            /\ WF_vars(Look) /\ WF_vars(Post) /\ WF_vars(Restart) /\ WF_vars(Tick)

FairSpec == Spec /\ Fairness

-----------------------------------------------------------------------------
(* What people may rely on.                                                 *)

\* "Repeat that": whoever is told that the namespace is awake, or that the request is
\* refused, is told what the controller ruled on that request, whatever it may have
\* ruled since and however the creation went.
SaidIsWasRuled == \A c \in Commands :
    /\ said[c] = "awake" => "Active" \in ruled[c]
    /\ said[c] = "refused" => "Rejected" \in ruled[c]

\* Whoever is turned away by the bot or by the API server has left nothing behind
\* that could wake the namespace after all.
RefusalsLeaveNothing == \A c \in Commands :
    said[c] \in Refusals => request[c] = None /\ ruled[c] = {}

\* Whatever the cluster does, fails to do or is slow at, no verdict is awaited for
\* longer than the timeout, one interval and one call.
AwaitedInTime == bot # None => bot.waited <= VerdictTimeout + 1 + CallTime

\* The longest a command is in hand: the calls before the wait, the wait, the reply.
Longest == 2 * CallTime + (VerdictTimeout + 1 + CallTime) + CallTime

\* "Acknowledge first" makes the acknowledgement wait for no call of its own command,
\* but for all of those ahead of it, and for nothing else.
AcknowledgedInTurn ==
    \A c \in Commands : unacked[c] <= (Cardinality(Commands) - 1) * Longest

\* Every command comes to an end, by a reply or, at the latest, by a crash: nobody
\* waits for ever behind another command, even if the controller rules on nothing.
EveryoneHearsBack == \A c \in Commands : ask[c] # None ~> said[c] # None
=============================================================================
