-------------------------- MODULE SlackWakerProofs --------------------------
(* Theorems about SlackWaker, for any number of commands, any channels and *)
(* durations, any pace of the controller and any length of a call.         *)
EXTENDS SlackWaker, FiniteSetTheorems, TLAPS

-----------------------------------------------------------------------------
(* The inductive invariant.                                                 *)

\* A text that may be told of a command: it repeats a verdict there has been, or
\* it turns down a command that nothing has come of.
Sound(c, text) ==
    /\ text = "awake" => "Active" \in ruled[c]
    /\ text = "refused" => "Rejected" \in ruled[c]
    /\ text \in Refusals => request[c] = None /\ ruled[c] = {}

\* Nothing has come of a command yet.
Untouched(c) == said[c] = None /\ request[c] = None /\ ruled[c] = {}

\* No command is in the queue of events twice, or there and in hand.
Once == \A i, j \in 1 .. Len(inbox) : inbox[i] = inbox[j] => i = j
Waiting == \A c \in Commands :
    Delivered(c) => ask[c] # None /\ Untouched(c) /\ ~InHand(c)
Unasked == \A c \in Commands :
    ask[c] = None => Untouched(c) /\ ~Delivered(c) /\ ~InHand(c)

\* What the command in hand has come to.
Hand == bot # None =>
    /\ ask[bot.command] # None /\ said[bot.command] = None
    /\ bot.stage \in {"describe", "create"} =>
          Untouched(bot.command) /\ ask[bot.command].duration # None
    /\ bot.stage = "post" => bot.text # None /\ Sound(bot.command, bot.text)

\* A verdict that can be read has been given.
Recorded == \A c \in Commands :
    request[c] # None /\ request[c].phase # "" => request[c].phase \in ruled[c]

Answers == \A c \in Commands : Sound(c, said[c])

\* How long a verdict has been awaited: a look starts at most one unit after the
\* deadline.
Timely == bot # None =>
    /\ bot.stage = "look" => bot.waited <= VerdictTimeout + 1 + bot.call
    /\ bot.stage = "sleep" => bot.waited <= VerdictTimeout
    /\ bot.stage \in {"describe", "create", "post"} => bot.waited = 0

IInv == /\ TypeOK /\ Once /\ Waiting /\ Unasked /\ Hand /\ Recorded /\ Answers /\ Timely

-----------------------------------------------------------------------------
(* The records the bot is made of.                                          *)

\* What At and Reply build.
LEMMA AtType ==
    ASSUME NEW c \in Commands, NEW stage \in Stages
    PROVE  /\ At(c, stage) \in Handling /\ At(c, stage) # None
           /\ At(c, stage).command = c /\ At(c, stage).stage = stage
           /\ At(c, stage).waited = 0 /\ At(c, stage).call = 0
<1>1. At(c, stage) \in Handling
  BY TimeAssumption DEF At, Handling
<1> QED BY <1>1, NoneAssumption DEF At

LEMMA ReplyType ==
    ASSUME NEW c \in Commands, NEW text \in Texts
    PROVE  /\ Reply(c, text) \in Handling /\ Reply(c, text) # None
           /\ Reply(c, text).command = c /\ Reply(c, text).stage = "post"
           /\ Reply(c, text).waited = 0 /\ Reply(c, text).text = text
<1>1. Reply(c, text) \in Handling
  BY TimeAssumption DEF Reply, At, Handling, Stages
<1> QED BY <1>1, NoneAssumption DEF Reply, At

\* The fields of the command in hand.
LEMMA HandType ==
    ASSUME TypeOK, bot # None
    PROVE  /\ bot \in Handling /\ bot.command \in Commands
           /\ bot.stage \in Stages
           /\ bot.waited \in Nat /\ bot.call \in 0 .. CallTime
           /\ bot.text \in Texts \union {None}
BY DEF TypeOK, Handling

\* What Leases makes of a request is a request, judged or not as before.
LEMMA AskedType ==
    ASSUME NEW n \in Durations
    PROVE  Cluster!Asked(n) \in Object /\ Cluster!Asked(n).phase = ""
BY TimeAssumption DEF Object, Cluster!Lease, Cluster!Asked

LEMMA RuledType ==
    ASSUME NEW l \in Object, NEW v \in Cluster!Rulings(l)
    PROVE  /\ v \in Verdicts
           /\ Cluster!Ruled(l, v) \in Object /\ Cluster!Ruled(l, v).phase = v
<1>1. v \in Verdicts
  BY DEF Cluster!Rulings, Cluster!Classify, Verdicts
<1> QED BY <1>1 DEF Object, Cluster!Lease, Cluster!Ruled, Verdicts, Cluster!Verdicts

LEMMA EditedType ==
    ASSUME NEW l \in Object, NEW n \in Durations
    PROVE  /\ [l EXCEPT !.duration = n] \in Object
           /\ [l EXCEPT !.duration = n].phase = l.phase
BY DEF Object, Cluster!Lease

LEMMA OlderType ==
    ASSUME NEW l \in Object \union {None}
    PROVE  /\ Cluster!Older(l) \in Object \union {None}
           /\ Cluster!Older(l) = None <=> l = None
           /\ l # None => Cluster!Older(l).phase = l.phase
<1>1. CASE l = None \/ l.age = AgeBound
  BY <1>1 DEF Cluster!Older
<1>2. CASE l # None /\ l.age # AgeBound
  <2>1. l \in Object /\ l.age \in 0 .. AgeBound
    BY <1>2 DEF Object, Cluster!Lease
  <2>2. l.age + 1 \in 0 .. AgeBound
    BY <1>2, <2>1, TimeAssumption
  <2>3. [l EXCEPT !.age = @ + 1] \in Object /\ [l EXCEPT !.age = @ + 1].phase = l.phase
    BY <2>1, <2>2 DEF Object, Cluster!Lease
  <2> QED BY <1>2, <2>3, NoneAssumption DEF Cluster!Older
<1> QED BY <1>1, <1>2

\* Taking the first event leaves the others, each once, and not that one.
LEMMA TailOnce ==
    ASSUME TypeOK, Once, inbox # <<>>
    PROVE  /\ Head(inbox) \in Commands /\ Tail(inbox) \in Seq(Commands)
           /\ Delivered(Head(inbox))
           /\ \A i \in 1 .. Len(Tail(inbox)) :
                 /\ Tail(inbox)[i] # Head(inbox)
                 /\ \E j \in 1 .. Len(inbox) : inbox[j] = Tail(inbox)[i]
           /\ \A i, j \in 1 .. Len(Tail(inbox)) : Tail(inbox)[i] = Tail(inbox)[j] => i = j
<1>1. inbox \in Seq(Commands) /\ Len(inbox) \in Nat /\ Len(inbox) > 0
  BY DEF TypeOK
<1>2. /\ Head(inbox) = inbox[1] /\ Head(inbox) \in Commands
      /\ Tail(inbox) \in Seq(Commands) /\ Len(Tail(inbox)) = Len(inbox) - 1
      /\ \A i \in 1 .. Len(inbox) - 1 : Tail(inbox)[i] = inbox[i + 1]
  BY <1>1
<1>3. 1 \in 1 .. Len(inbox)
      /\ \A i \in 1 .. Len(inbox) - 1 : i + 1 \in 1 .. Len(inbox) /\ i + 1 # 1
  BY <1>1
<1>4. Delivered(Head(inbox))
  BY <1>2, <1>3 DEF Delivered
<1>5. ASSUME NEW i \in 1 .. Len(inbox) - 1
      PROVE  Tail(inbox)[i] # Head(inbox) /\ \E j \in 1 .. Len(inbox) : inbox[j] = Tail(inbox)[i]
  BY <1>2, <1>3 DEF Once
<1>6. ASSUME NEW i \in 1 .. Len(inbox) - 1, NEW j \in 1 .. Len(inbox) - 1,
             Tail(inbox)[i] = Tail(inbox)[j]
      PROVE  i = j
  <2>1. inbox[i + 1] = inbox[j + 1]
    BY <1>2, <1>6
  <2>2. i + 1 = j + 1
    BY <1>3, <2>1 DEF Once
  <2> QED BY <2>2
<1> QED BY <1>2, <1>4, <1>5, <1>6

\* The first state.
LEMMA InitIInv == Init => IInv
<1> SUFFICES ASSUME Init PROVE IInv
  OBVIOUS
<1>1. TypeOK
  BY TimeAssumption DEF Init, TypeOK
<1>2. Once /\ Waiting /\ Unasked
  BY DEF Init, Once, Waiting, Unasked, Delivered, InHand, Untouched
<1>3. Hand /\ Timely
  BY DEF Init, Hand, Timely
<1>4. Recorded
  BY DEF Init, Recorded
<1>5. Answers
  BY NoneAssumption DEF Init, Answers, Sound, Refusals, Texts
<1> QED BY <1>1, <1>2, <1>3, <1>4, <1>5 DEF IInv

-----------------------------------------------------------------------------
(* Every step keeps the invariant.                                          *)

\* A step that changes no command, nor what the bot, the people and the cluster have
\* made of it.
LEMMA NothingMoves ==
    ASSUME IInv, TypeOK', UNCHANGED <<ask, inbox, bot, said, request, ruled>>
    PROVE  IInv'
<1>1. \A c \in Commands : InHand(c)' = InHand(c) /\ Delivered(c)' = Delivered(c)
  BY DEF InHand, Delivered
<1>2. Once' /\ Waiting' /\ Unasked'
  BY <1>1 DEF IInv, Once, Waiting, Unasked, Untouched
<1>3. Hand' /\ Timely'
  BY DEF IInv, Hand, Timely, Sound, Untouched
<1>4. Recorded' /\ Answers'
  BY DEF IInv, Recorded, Answers, Sound
<1> QED BY <1>2, <1>3, <1>4 DEF IInv

\* A step that only changes what the bot makes of the command in hand.
LEMMA OnlyHand ==
    ASSUME IInv, bot # None, NEW h \in Handling, h # None, h.command = bot.command,
           bot' = h, UNCHANGED <<up, ask, unacked, inbox, said, request, ruled>>,
           h.stage \in {"describe", "create"} =>
              bot.stage = "describe" /\ h.waited = 0,
           h.stage = "post" => h.text # None /\ Sound(h.command, h.text),
           h.stage = "look" => h.waited <= VerdictTimeout + 1 + h.call,
           h.stage = "sleep" => h.waited <= VerdictTimeout,
           h.stage = "post" => h.waited = 0
    PROVE  IInv'
<1>1. TypeOK'
  BY DEF IInv, TypeOK
<1>2. \A c \in Commands : InHand(c)' = InHand(c)
  BY DEF InHand
<1>3. Once' /\ Waiting' /\ Unasked'
  BY <1>2 DEF IInv, Once, Waiting, Unasked, Untouched, Delivered
<1>4. Hand'
  BY DEF IInv, Hand, Sound, Untouched
<1>5. Recorded' /\ Answers'
  BY DEF IInv, Recorded, Answers, Sound
<1>6. Timely'
  BY DEF Timely
<1> QED BY <1>1, <1>3, <1>4, <1>5, <1>6 DEF IInv

\* A step that stores the request of the command in hand: nothing had come of that
\* command before, so nothing said of any command becomes untrue.
LEMMA HandStores ==
    ASSUME IInv, Creating, Stored(bot.command), NEW h \in Handling, h # None,
           h.command = bot.command, bot' = h,
           UNCHANGED <<up, ask, unacked, inbox, said, ruled>>,
           h.stage = "look" \/ (h.stage = "post" /\ h.text = "unreachable"),
           h.waited = 0, h.call = 0
    PROVE  IInv'
<1> DEFINE d == bot.command
<1>1. /\ d \in Commands /\ bot # None /\ Untouched(d)
      /\ ask[d] # None /\ ask[d] \in Ask /\ ask[d].duration \in Durations
  <2>1. bot # None /\ d \in Commands
    BY HandType DEF Creating, IInv
  <2>2. ask[d] # None /\ Untouched(d) /\ ask[d].duration # None
    BY <2>1 DEF Creating, IInv, Hand
  <2>3. ask[d] \in Ask
    BY <2>1, <2>2 DEF IInv, TypeOK
  <2> QED BY <2>1, <2>2, <2>3 DEF Ask
<1>2. Cluster!Asked(ask[d].duration) \in Object /\ Cluster!Asked(ask[d].duration).phase = ""
  BY <1>1, AskedType
<1>3. /\ request' \in [Commands -> Object \union {None}]
      /\ request'[d].phase = ""
      /\ \A c \in Commands \ {d} : request'[c] = request[c]
  BY <1>1, <1>2 DEF Stored, IInv, TypeOK
<1>4. TypeOK'
  BY <1>3 DEF IInv, TypeOK
<1>5. \A c \in Commands : InHand(c)' = InHand(c) /\ Delivered(c)' = Delivered(c)
  BY <1>1 DEF InHand, Delivered
<1>6. InHand(d)
  BY <1>1 DEF InHand
<1>7. Once' /\ Waiting' /\ Unasked'
  <2>1. ~Delivered(d) /\ ask[d] # None
    BY <1>1, <1>6 DEF IInv, Waiting, Unasked
  <2> QED BY <1>3, <1>5, <2>1 DEF IInv, Once, Waiting, Unasked, Untouched
<1>8. \A c \in Commands : Sound(c, said[c])'
  BY <1>1, <1>3, NoneAssumption DEF IInv, Answers, Sound, Untouched, Refusals, Texts
<1>9. Hand'
  <2>1. ask'[d] # None /\ said'[d] = None
    BY <1>1 DEF Untouched
  <2>2. h.stage = "post" => h.text # None /\ Sound(d, h.text)'
    BY NoneAssumption DEF Sound, Texts, Refusals
  <2>3. h.stage \notin {"describe", "create"}
    OBVIOUS
  <2> QED BY <2>1, <2>2, <2>3 DEF Hand
<1>10. Recorded'
  BY <1>3 DEF IInv, Recorded
<1>11. Timely'
  BY TimeAssumption DEF Timely
<1> QED BY <1>4, <1>7, <1>8, <1>9, <1>10, <1>11 DEF IInv, Answers

\* Taking the next command.
LEMMA TakeIInv == IInv /\ Take => IInv'
<1> SUFFICES ASSUME IInv, Take PROVE IInv'
  OBVIOUS
<1> DEFINE c == Head(inbox)
<1>1. TypeOK /\ Once /\ inbox # <<>> /\ bot = None
  BY DEF IInv, Take
<1>2. /\ c \in Commands /\ Tail(inbox) \in Seq(Commands) /\ Delivered(c)
      /\ \A i \in 1 .. Len(Tail(inbox)) :
            /\ Tail(inbox)[i] # c
            /\ \E j \in 1 .. Len(inbox) : inbox[j] = Tail(inbox)[i]
      /\ \A i, j \in 1 .. Len(Tail(inbox)) : Tail(inbox)[i] = Tail(inbox)[j] => i = j
  BY <1>1, TailOnce
<1>3. ask[c] # None /\ Untouched(c)
  BY <1>2 DEF IInv, Waiting
<1>4. /\ bot' \in Handling /\ bot' # None /\ bot'.command = c /\ bot'.waited = 0
      /\ \/ bot'.stage = "describe" /\ ask[c].duration # None
         \/ bot'.stage = "post" /\ bot'.text \in {"unmapped", "usage"}
  <2>1. CASE ask[c].channel \notin Mapped
    <3>1. bot' = Reply(c, "unmapped") /\ "unmapped" \in Texts
      BY <2>1 DEF Take, Texts, Refusals
    <3> QED BY <1>2, <3>1, ReplyType
  <2>2. CASE ask[c].channel \in Mapped /\ ask[c].duration = None
    <3>1. bot' = Reply(c, "usage") /\ "usage" \in Texts
      BY <2>2 DEF Take, Texts, Refusals
    <3> QED BY <1>2, <3>1, ReplyType
  <2>3. CASE ask[c].channel \in Mapped /\ ask[c].duration # None
    <3>1. bot' = At(c, "describe")
      BY <2>3 DEF Take
    <3> QED BY <1>2, <2>3, <3>1, AtType DEF Stages
  <2> QED BY <2>1, <2>2, <2>3
<1>5. /\ inbox' = Tail(inbox)
      /\ UNCHANGED <<up, ask, said, request, ruled>>
      /\ unacked' \in [Commands -> 0 .. WaitBound]
  BY <1>1, TimeAssumption DEF Take, TypeOK
<1> HIDE DEF c
<1>6. TypeOK'
  BY <1>1, <1>2, <1>4, <1>5 DEF TypeOK
<1>7. Once'
  BY <1>2, <1>5 DEF Once
<1>8. \A x \in Commands : Delivered(x)' => Delivered(x) /\ x # c
  BY <1>2, <1>5 DEF Delivered
<1>9. Waiting'
  BY <1>1, <1>4, <1>5, <1>8 DEF IInv, Waiting, Untouched, InHand
<1>10. Unasked'
  BY <1>3, <1>4, <1>5, <1>8 DEF IInv, Unasked, Untouched, InHand
<1>11. Hand'
  BY <1>3, <1>4, <1>5, NoneAssumption DEF Hand, Sound, Untouched, Refusals, Texts
<1>12. Recorded' /\ Answers'
  BY <1>5 DEF IInv, Recorded, Answers, Sound
<1>13. Timely'
  BY <1>4 DEF Timely
<1> QED BY <1>6, <1>7, <1>9, <1>10, <1>11, <1>12, <1>13 DEF IInv

\* Looking up who typed the command changes nothing else.
LEMMA DescribeIInv == IInv /\ DescribeUser => IInv'
<1> SUFFICES ASSUME IInv, DescribeUser PROVE IInv'
  OBVIOUS
<1>1. bot # None /\ bot.command \in Commands /\ bot.stage = "describe"
  BY HandType DEF DescribeUser, IInv
<1>2. bot' = At(bot.command, "create") /\ "create" \in Stages
  BY DEF DescribeUser, Stages
<1> QED BY <1>1, <1>2, AtType, OnlyHand DEF DescribeUser

\* The three ends of a creation.
LEMMA CreateIInv == IInv /\ (Create \/ CreateDenied \/ CreateUnclear) => IInv'
<1> SUFFICES ASSUME IInv, Creating PROVE Create \/ CreateDenied \/ CreateUnclear => IInv'
  BY DEF Create, CreateDenied, CreateUnclear
<1>1. bot # None /\ bot.command \in Commands /\ Untouched(bot.command)
  BY HandType DEF Creating, IInv, Hand
<1>2. ASSUME Create PROVE IInv'
  <2>1. bot' = At(bot.command, "look")
    BY <1>2 DEF Create
  <2> QED BY <1>1, <1>2, <2>1, AtType, HandStores DEF Create, Stages
<1>3. ASSUME NEW text \in {"denied", "unreachable"}, bot' = Reply(bot.command, text),
             UNCHANGED <<up, ask, unacked, inbox, said, request, ruled>>
      PROVE  IInv'
  <2>1. text \in Texts /\ text # None /\ Sound(bot.command, text)
    BY <1>1, NoneAssumption DEF Texts, Refusals, Sound, Untouched
  <2> QED BY <1>1, <1>3, <2>1, ReplyType, OnlyHand
<1>4. ASSUME CreateUnclear, Stored(bot.command) PROVE IInv'
  <2>1. bot' = Reply(bot.command, "unreachable") /\ "unreachable" \in Texts
    BY <1>4 DEF CreateUnclear, Texts
  <2>2. Reply(bot.command, "unreachable").call = 0
    BY DEF Reply, At
  <2> QED BY <1>1, <1>4, <2>1, <2>2, ReplyType, HandStores DEF CreateUnclear
<1> QED BY <1>2, <1>3, <1>4 DEF CreateDenied, CreateUnclear

\* A look: a verdict that is read has been given, and one that is not ends the wait
\* once the deadline has passed.
LEMMA LookIInv == IInv /\ Look => IInv'
<1> SUFFICES ASSUME IInv, Looking PROVE Look => IInv'
  BY DEF Look, ReadVerdict, ReadNothing
<1> DEFINE c == bot.command
<1>1. /\ bot # None /\ bot \in Handling /\ c \in Commands /\ bot.stage = "look"
      /\ bot.waited \in Nat
  BY HandType DEF Looking, IInv
<1>2. ASSUME ReadVerdict PROVE IInv'
  <2>1. request[c].phase \in ruled[c]
    BY <1>1, <1>2 DEF ReadVerdict, IInv, Recorded
  <2> DEFINE text == TextOf(request[c].phase)
  <2>2. bot' = Reply(c, text) /\ text \in Texts
    BY <1>2 DEF ReadVerdict, TextOf, Texts
  <2>3. text # None /\ Sound(c, text)
    BY <1>2, <2>1, <2>2, NoneAssumption DEF ReadVerdict, TextOf, Sound, Refusals
  <2> HIDE DEF text
  <2> QED BY <1>1, <1>2, <2>2, <2>3, ReplyType, OnlyHand DEF ReadVerdict
<1>3. ASSUME ReadNothing, bot.waited > VerdictTimeout PROVE IInv'
  <2>1. bot' = Reply(c, "pending") /\ "pending" \in Texts
    BY <1>3 DEF ReadNothing, Texts
  <2>2. "pending" # None /\ Sound(c, "pending")
    BY <2>1, NoneAssumption DEF Sound, Refusals
  <2> QED BY <1>1, <1>3, <2>1, <2>2, ReplyType, OnlyHand DEF ReadNothing
<1>4. ASSUME ReadNothing, ~(bot.waited > VerdictTimeout) PROVE IInv'
  <2> DEFINE h == [bot EXCEPT !.stage = "sleep"]
  <2>1. bot' = h
    BY <1>4 DEF ReadNothing
  <2>2. /\ h \in Handling /\ h.command = c /\ h.stage = "sleep"
        /\ h.waited = bot.waited
    BY <1>1 DEF Handling, Stages
  <2>3. h # None /\ h.waited <= VerdictTimeout
    BY <1>1, <1>4, <2>2, TimeAssumption, NoneAssumption
  <2> HIDE DEF h
  <2> QED BY <1>1, <1>4, <2>1, <2>2, <2>3, OnlyHand DEF ReadNothing
<1> QED BY <1>2, <1>3, <1>4 DEF Look

\* The reply is what the bot made up its mind to say, or nobody hears it.
LEMMA PostIInv == IInv /\ Post => IInv'
<1> SUFFICES ASSUME IInv, Post PROVE IInv'
  OBVIOUS
<1> DEFINE d == bot.command
<1>1. /\ bot # None /\ d \in Commands /\ bot.text \in Texts /\ Sound(d, bot.text)
      /\ ask[d] # None /\ ~Delivered(d)
  <2>1. bot # None /\ d \in Commands /\ bot.text \in Texts \union {None}
    BY HandType DEF Post, IInv
  <2>2. InHand(d)
    BY <2>1 DEF InHand
  <2> QED BY <2>1, <2>2 DEF Post, IInv, Hand, Waiting
<1>2. /\ bot' = None /\ UNCHANGED <<up, ask, unacked, inbox, request, ruled>>
  BY DEF Post
<1>3. PICK outcome \in {bot.text, "unheard"} : said' = [said EXCEPT ![d] = outcome]
  BY DEF Post
<1>4. /\ said' \in [Commands -> Texts \union {"unheard", "lost", None}]
      /\ said'[d] = outcome
      /\ \A c \in Commands \ {d} : said'[c] = said[c]
  BY <1>1, <1>3 DEF IInv, TypeOK
<1>5. TypeOK'
  BY <1>2, <1>4 DEF IInv, TypeOK
<1>6. \A c \in Commands : Delivered(c)' = Delivered(c) /\ ~InHand(c)'
  BY <1>2 DEF Delivered, InHand
<1>7. Once' /\ Waiting' /\ Unasked'
  BY <1>1, <1>2, <1>4, <1>6 DEF IInv, Once, Waiting, Unasked, Untouched
<1>8. Hand' /\ Timely'
  BY <1>2 DEF Hand, Timely
<1>9. Recorded'
  BY <1>2 DEF IInv, Recorded
<1>10. Answers'
  <2>1. ASSUME NEW c \in Commands PROVE Sound(c, said'[c])
    <3>1. CASE c = d
      BY <1>1, <1>4, <3>1 DEF Sound, Refusals
    <3>2. CASE c # d
      BY <1>4, <3>2 DEF IInv, Answers
    <3> QED BY <3>1, <3>2
  <2> QED BY <1>2, <2>1 DEF Answers, Sound
<1> QED BY <1>5, <1>7, <1>8, <1>9, <1>10 DEF IInv

\* A crash loses what was in hand and in the queue; the next process finds neither.
LEMMA CrashIInv == IInv /\ (Crash \/ Restart) => IInv'
<1>1. ASSUME IInv, Crash PROVE IInv'
  <2>1. /\ inbox' = <<>> /\ bot' = None /\ up' = FALSE
        /\ UNCHANGED <<ask, request, ruled>>
        /\ unacked' \in [Commands -> 0 .. WaitBound]
    BY <1>1, TimeAssumption DEF Crash
  <2>2. /\ said' \in [Commands -> Texts \union {"unheard", "lost", None}]
        /\ \A c \in Commands : \/ said'[c] = said[c]
                               \/ said'[c] = "lost" /\ ask[c] # None
    BY <1>1 DEF Crash, IInv, TypeOK, Unasked
  <2>3. TypeOK'
    <3>1. inbox' \in Seq(Commands) /\ up' \in BOOLEAN
      <4>1. <<>> \in Seq(Commands) /\ FALSE \in BOOLEAN
        OBVIOUS
      <4> QED BY <2>1, <4>1
    <3> QED BY <1>1, <2>1, <2>2, <3>1 DEF IInv, TypeOK
  <2>4. Once' /\ Waiting'
    BY <2>1 DEF Once, Waiting, Delivered
  <2>5. Unasked'
    BY <1>1, <2>1, <2>2 DEF IInv, Unasked, Untouched, Delivered, InHand
  <2>6. Hand' /\ Timely'
    BY <2>1 DEF Hand, Timely
  <2>7. Recorded'
    BY <1>1, <2>1 DEF IInv, Recorded
  <2>8. Answers'
    BY <1>1, <2>1, <2>2 DEF IInv, Answers, Sound, Refusals
  <2> QED BY <2>3, <2>4, <2>5, <2>6, <2>7, <2>8 DEF IInv
<1>2. ASSUME IInv, Restart PROVE IInv'
  <2>1. TypeOK'
    BY <1>2 DEF Restart, IInv, TypeOK
  <2> QED BY <1>2, <2>1, NothingMoves DEF Restart
<1> QED BY <1>1, <1>2

\* A new command goes to the end of the queue.
LEMMA TypeIInv == ASSUME NEW d \in Commands PROVE IInv /\ Type(d) => IInv'
<1> SUFFICES ASSUME IInv, Type(d) PROVE IInv'
  OBVIOUS
<1>1. /\ inbox \in Seq(Commands) /\ Len(inbox) \in Nat
      /\ Untouched(d) /\ ~Delivered(d) /\ ~InHand(d)
  BY DEF IInv, TypeOK, Type, Unasked
<1>2. /\ inbox' = Append(inbox, d)
      /\ UNCHANGED <<up, unacked, bot, said, request, ruled>>
  BY DEF Type
<1>3. /\ inbox' \in Seq(Commands) /\ Len(inbox') = Len(inbox) + 1
      /\ \A i \in 1 .. Len(inbox) : inbox'[i] = inbox[i]
      /\ inbox'[Len(inbox) + 1] = d
  BY <1>1, <1>2
<1>4. PICK a \in Ask : ask' = [ask EXCEPT ![d] = a]
  BY DEF Type
<1>5. /\ ask' \in [Commands -> Ask \union {None}] /\ ask'[d] # None
      /\ \A c \in Commands \ {d} : ask'[c] = ask[c]
  BY <1>4, NoneAssumption DEF IInv, TypeOK
<1>6. TypeOK'
  BY <1>2, <1>3, <1>5 DEF IInv, TypeOK
<1>7. \A c \in Commands \ {d} : Delivered(c)' => Delivered(c)
  BY <1>1, <1>3 DEF Delivered
<1>8. Once'
  <2>1. \A i \in 1 .. Len(inbox) : inbox[i] # d
    BY <1>1 DEF Delivered
  <2>2. \A i \in 1 .. Len(inbox') : i \in 1 .. Len(inbox) \/ i = Len(inbox) + 1
    BY <1>1, <1>3
  <2> QED BY <1>3, <2>1, <2>2 DEF IInv, Once
<1>9. Waiting'
  BY <1>1, <1>2, <1>5, <1>7 DEF IInv, Waiting, Untouched, InHand
<1>10. Unasked'
  BY <1>2, <1>5, <1>7 DEF IInv, Unasked, Untouched, InHand
<1>11. Hand'
  <2>1. bot # None => bot.command \in Commands \ {d}
    BY <1>1, HandType DEF IInv, InHand
  <2> QED BY <1>2, <1>5, <2>1 DEF IInv, Hand, Sound, Untouched
<1>12. Recorded' /\ Answers' /\ Timely'
  BY <1>2 DEF IInv, Recorded, Answers, Timely, Sound
<1> QED BY <1>6, <1>8, <1>9, <1>10, <1>11, <1>12 DEF IInv

\* A ruling adds to what has been ruled, and only on a request that exists.
LEMMA RuleIInv == ASSUME NEW d \in Commands PROVE IInv /\ Rule(d) => IInv'
<1> SUFFICES ASSUME IInv, Rule(d) PROVE IInv'
  OBVIOUS
<1>0. PICK verdict \in Cluster!Rulings(request[d]) :
             request' = [request EXCEPT ![d] = Cluster!Ruled(@, verdict)]
  BY DEF Rule, Cluster!Rule
<1>1. request[d] \in Object /\ request[d] # None /\ verdict \in Verdicts
  <2>1. request[d] \in Object /\ request[d] # None
    BY DEF Rule, Cluster!Rule, IInv, TypeOK
  <2> QED BY <2>1, RuledType
<1>2. /\ Cluster!Ruled(request[d], verdict) \in Object
      /\ Cluster!Ruled(request[d], verdict).phase = verdict
  BY <1>1, RuledType
<1>3. /\ request'[d].phase = verdict
      /\ ruled' = [ruled EXCEPT ![d] = @ \union {verdict}]
      /\ UNCHANGED <<up, ask, unacked, inbox, bot, said>>
  <2>1. request'[d].phase = verdict
    BY <1>0, <1>2 DEF IInv, TypeOK
  <2> QED BY <2>1 DEF Rule
<1>4. /\ request' \in [Commands -> Object \union {None}]
      /\ request'[d] # None /\ request'[d].phase = verdict
      /\ \A c \in Commands \ {d} : request'[c] = request[c]
  BY <1>0, <1>1, <1>2, NoneAssumption DEF IInv, TypeOK
<1>5. /\ ruled' \in [Commands -> SUBSET Verdicts]
      /\ verdict \in ruled'[d]
      /\ \A c \in Commands : ruled[c] \subseteq ruled'[c]
      /\ \A c \in Commands \ {d} : ruled'[c] = ruled[c]
  BY <1>1, <1>3 DEF IInv, TypeOK
<1>6. TypeOK'
  BY <1>3, <1>4, <1>5 DEF IInv, TypeOK
<1>7. ~Untouched(d)
  BY <1>1 DEF Untouched
<1>8. \A c \in Commands : /\ InHand(c)' = InHand(c) /\ Delivered(c)' = Delivered(c)
                          /\ Untouched(c) => Untouched(c)'
  BY <1>3, <1>4, <1>5, <1>7 DEF InHand, Delivered, Untouched
<1>9. Once' /\ Waiting' /\ Unasked'
  BY <1>3, <1>8 DEF IInv, Once, Waiting, Unasked
<1>10. ASSUME NEW c \in Commands, NEW text, Sound(c, text) PROVE Sound(c, text)'
  BY <1>1, <1>4, <1>5, <1>10 DEF Sound
<1>11. Hand'
  BY <1>3, <1>8, <1>10, HandType DEF IInv, Hand
<1>12. Answers'
  BY <1>3, <1>10 DEF IInv, Answers
<1>13. Recorded'
  BY <1>4, <1>5 DEF IInv, Recorded
<1>14. Timely'
  BY <1>3 DEF IInv, Timely
<1> QED BY <1>6, <1>9, <1>11, <1>12, <1>13, <1>14 DEF IInv

\* A request may be edited, or go; the verdicts there have been on it stay.
LEMMA EditOrDeleteIInv == ASSUME NEW d \in Commands PROVE IInv /\ EditOrDelete(d) => IInv'
<1> SUFFICES ASSUME IInv, EditOrDelete(d) PROVE IInv'
  OBVIOUS
<1>1. UNCHANGED <<up, ask, unacked, inbox, bot, said, ruled>>
  BY DEF EditOrDelete
<1>2. /\ request' \in [Commands -> Object \union {None}]
      /\ \A c \in Commands : \/ request'[c] = None
                             \/ request[c] # None /\ request'[c].phase = request[c].phase
  <2>1. CASE Cluster!Delete(d)
    BY <2>1 DEF Cluster!Delete, IInv, TypeOK
  <2>2. CASE Cluster!Edit(d)
    <3>1. PICK n \in Durations : request' = [request EXCEPT ![d].duration = n]
      BY <2>2 DEF Cluster!Edit
    <3>2. request[d] # None /\ request[d] \in Object
      BY <2>2 DEF Cluster!Edit, IInv, TypeOK
    <3>3. /\ [request[d] EXCEPT !.duration = n] \in Object
          /\ [request[d] EXCEPT !.duration = n].phase = request[d].phase
      BY <3>2, EditedType
    <3>4. /\ request'[d] = [request[d] EXCEPT !.duration = n]
          /\ \A c \in Commands \ {d} : request'[c] = request[c]
      BY <3>1 DEF IInv, TypeOK
    <3>5. request' \in [Commands -> Object \union {None}]
      BY <3>1, <3>3 DEF IInv, TypeOK
    <3> QED BY <3>2, <3>3, <3>4, <3>5
  <2> QED BY <2>1, <2>2 DEF EditOrDelete
<1>3. TypeOK'
  BY <1>1, <1>2 DEF IInv, TypeOK
<1>4. \A c \in Commands : /\ InHand(c)' = InHand(c) /\ Delivered(c)' = Delivered(c)
                          /\ Untouched(c) => Untouched(c)'
  BY <1>1, <1>2 DEF InHand, Delivered, Untouched
<1>5. Once' /\ Waiting' /\ Unasked'
  BY <1>1, <1>4 DEF IInv, Once, Waiting, Unasked
<1>6. ASSUME NEW c \in Commands, NEW text, Sound(c, text) PROVE Sound(c, text)'
  BY <1>1, <1>2, <1>6 DEF Sound
<1>7. Hand'
  BY <1>1, <1>4, <1>6, HandType DEF IInv, Hand
<1>8. Answers'
  BY <1>1, <1>6 DEF IInv, Answers
<1>9. Recorded' /\ Timely'
  BY <1>1, <1>2 DEF IInv, Recorded, Timely
<1> QED BY <1>3, <1>5, <1>7, <1>8, <1>9 DEF IInv

\* A unit of time: requests grow older, and a look or a sleep takes longer.
LEMMA TickIInv == IInv /\ Tick => IInv'
<1>2. ASSUME IInv, Tick PROVE IInv'
  <2>1. UNCHANGED <<up, ask, inbox, said, ruled>>
    BY <1>2 DEF Tick
  <2>2. ASSUME NEW c \in Commands
        PROVE  /\ request'[c] \in Object \union {None}
               /\ request'[c] = None <=> request[c] = None
               /\ request[c] # None => request'[c].phase = request[c].phase
    <3>1. request[c] \in Object \union {None} /\ request'[c] = Cluster!Older(request[c])
      BY <1>2 DEF Tick, Cluster!Age, IInv, TypeOK
    <3> QED BY <3>1, OlderType
  <2>3. request' \in [Commands -> Object \union {None}]
    <3>1. request' = [c \in Commands |-> request'[c]]
      BY <1>2 DEF Tick, Cluster!Age
    <3> QED BY <2>2, <3>1
  <2>4. unacked' \in [Commands -> 0 .. WaitBound]
    BY <1>2, TimeAssumption DEF Tick, IInv, TypeOK
  <2>5. CASE bot = None
    <3>1. bot' = None
      BY <1>2, <2>5 DEF Tick
    <3>2. TypeOK'
      BY <1>2, <2>1, <2>3, <2>4, <3>1 DEF IInv, TypeOK
    <3>3. \A c \in Commands : /\ InHand(c)' = InHand(c) /\ Delivered(c)' = Delivered(c)
                              /\ Untouched(c) => Untouched(c)'
      BY <2>1, <2>2, <2>5, <3>1 DEF InHand, Delivered, Untouched
    <3>4. Once' /\ Waiting' /\ Unasked'
      BY <1>2, <2>1, <3>3 DEF IInv, Once, Waiting, Unasked
    <3>5. Hand' /\ Timely'
      BY <3>1 DEF Hand, Timely
    <3>6. Recorded' /\ Answers'
      BY <1>2, <2>1, <2>2 DEF IInv, Recorded, Answers, Sound
    <3> QED BY <3>2, <3>4, <3>5, <3>6 DEF IInv
  <2>6. CASE bot # None
    <3>1. /\ bot \in Handling /\ bot.command \in Commands /\ bot.waited \in Nat
          /\ bot.call \in 0 .. CallTime /\ bot.stage \in Stages
      BY <1>2, <2>6, HandType DEF IInv
    <3>2. /\ bot' \in Handling /\ bot'.command = bot.command /\ bot'.text = bot.text
          /\ \/ /\ bot.stage = "sleep" /\ bot'.stage = "look"
                /\ bot'.call = 0 /\ bot'.waited = bot.waited + 1
             \/ /\ bot.stage = "look" /\ bot'.stage = "look"
                /\ bot'.call = bot.call + 1 /\ bot'.waited = bot.waited + 1
             \/ /\ bot.stage \in {"describe", "create", "post"} /\ bot'.stage = bot.stage
                /\ bot'.waited = bot.waited
      <4>1. CASE bot.stage = "sleep"
        <5>1. bot' = [bot EXCEPT !.stage = "look", !.call = 0, !.waited = @ + 1]
          BY <1>2, <2>6, <4>1 DEF Tick
        <5>2. 0 \in 0 .. CallTime /\ bot.waited + 1 \in Nat
          BY <3>1, TimeAssumption
        <5>3. bot' \in Handling
          BY <3>1, <5>1, <5>2 DEF Handling, Stages
        <5>4. /\ bot'.command = bot.command /\ bot'.text = bot.text /\ bot'.stage = "look"
              /\ bot'.call = 0 /\ bot'.waited = bot.waited + 1
          BY <3>1, <5>1 DEF Handling
        <5> QED BY <4>1, <5>3, <5>4
      <4>2. CASE bot.stage = "look"
        <5>1. bot.call < CallTime
              /\ bot' = [bot EXCEPT !.call = @ + 1, !.waited = @ + 1]
          BY <1>2, <2>6, <4>2 DEF Tick
        <5>2. bot.call + 1 \in 0 .. CallTime /\ bot.waited + 1 \in Nat
          BY <3>1, <5>1, TimeAssumption
        <5>3. bot' \in Handling
          BY <3>1, <5>1, <5>2 DEF Handling
        <5>4. /\ bot'.command = bot.command /\ bot'.text = bot.text /\ bot'.stage = bot.stage
              /\ bot'.call = bot.call + 1 /\ bot'.waited = bot.waited + 1
          BY <3>1, <5>1 DEF Handling
        <5> QED BY <4>2, <5>3, <5>4
      <4>3. CASE bot.stage \in {"describe", "create", "post"}
        <5>1. bot.call < CallTime
              /\ bot' = [bot EXCEPT !.call = @ + 1, !.waited = @]
          BY <1>2, <2>6, <4>3 DEF Tick
        <5>2. bot.call + 1 \in 0 .. CallTime
          BY <3>1, <5>1, TimeAssumption
        <5>3. bot' \in Handling
          BY <3>1, <5>1, <5>2 DEF Handling
        <5>4. /\ bot'.command = bot.command /\ bot'.text = bot.text /\ bot'.stage = bot.stage
              /\ bot'.waited = bot.waited
          BY <3>1, <5>1 DEF Handling
        <5> QED BY <4>3, <5>3, <5>4
      <4> QED BY <3>1, <4>1, <4>2, <4>3 DEF Stages
    <3>3. bot' # None
      BY <3>2, NoneAssumption
    <3>4. TypeOK'
      BY <1>2, <2>1, <2>3, <2>4, <3>2 DEF IInv, TypeOK
    <3>5. \A c \in Commands : /\ InHand(c)' = InHand(c) /\ Delivered(c)' = Delivered(c)
                              /\ Untouched(c) => Untouched(c)'
      BY <2>1, <2>2, <2>6, <3>2, <3>3 DEF InHand, Delivered, Untouched
    <3>6. Once' /\ Waiting' /\ Unasked'
      BY <1>2, <2>1, <3>5 DEF IInv, Once, Waiting, Unasked
    <3>7. ASSUME NEW c \in Commands, NEW text, Sound(c, text) PROVE Sound(c, text)'
      BY <2>1, <2>2, <3>7 DEF Sound
    <3>8. Hand'
      BY <1>2, <2>1, <2>6, <3>1, <3>2, <3>5, <3>7 DEF IInv, Hand
    <3>9. Answers'
      BY <1>2, <2>1, <3>7 DEF IInv, Answers
    <3>10. Recorded'
      BY <1>2, <2>1, <2>2 DEF IInv, Recorded
    <3>11. Timely'
      BY <1>2, <2>6, <3>1, <3>2, TimeAssumption DEF IInv, Timely
    <3> QED BY <3>4, <3>6, <3>8, <3>9, <3>10, <3>11 DEF IInv
  <2> QED BY <2>5, <2>6
<1> QED BY <1>2

\* The invariant is inductive.
LEMMA NextIInv == IInv /\ [Next]_vars => IInv'
<1>1. ASSUME IInv, UNCHANGED vars PROVE IInv'
  <2>1. TypeOK'
    BY <1>1 DEF vars, IInv, TypeOK
  <2> QED BY <1>1, <2>1, NothingMoves DEF vars
<1> QED BY <1>1, TakeIInv, DescribeIInv, CreateIInv, LookIInv, PostIInv, CrashIInv, TickIInv, TypeIInv,
           RuleIInv, EditOrDeleteIInv DEF Next

-----------------------------------------------------------------------------
(* The theorems.                                                            *)

\* The invariant always holds.
LEMMA AlwaysIInv == Spec => []IInv
BY InitIInv, NextIInv, PTL DEF Spec

\* Every reachable state is well typed; in particular, what is stored is a request
\* with a duration that somebody typed.
THEOREM TypeCorrect == Spec => []TypeOK
<1>1. IInv => TypeOK
  BY DEF IInv
<1> QED BY <1>1, AlwaysIInv, PTL

\* What the bot says of a request has been ruled on that request, whatever calls fail
\* and whenever the bot dies.
THEOREM RepliesAreTrue == Spec => []SaidIsWasRuled
<1>1. IInv => SaidIsWasRuled
  BY DEF IInv, Answers, Sound, SaidIsWasRuled
<1> QED BY <1>1, AlwaysIInv, PTL

\* A command that was turned down came to nothing, and never comes to anything.
THEOREM RefusedIsHarmless == Spec => []RefusalsLeaveNothing
<1>1. IInv => RefusalsLeaveNothing
  BY DEF IInv, Answers, Sound, RefusalsLeaveNothing
<1> QED BY <1>1, AlwaysIInv, PTL

\* The bot does to the requests of the namespace only what Leases lets somebody do: for
\* a command it creates one at most, and it never touches it again.  (What WakeRequests
\* is proved to make of requests is therefore all that the bot is proved against.)
THEOREM BotOnlyAsks == Spec => Cluster!Spec
<1>1. Init => Cluster!Init
  BY DEF Init, Cluster!Init
<1>2. ASSUME IInv, Creating, Stored(bot.command) PROVE Cluster!Next
  <2>1. /\ bot # None /\ bot.command \in Commands
        /\ Untouched(bot.command) /\ ask[bot.command] # None
        /\ ask[bot.command].duration # None
    BY <1>2, HandType DEF Creating, IInv, Hand
  <2>2. ask[bot.command] \in Ask
    BY <1>2, <2>1 DEF IInv, TypeOK
  <2>3. ask[bot.command].duration \in Durations
    BY <2>1, <2>2 DEF Ask
  <2>4. Cluster!Create(bot.command)
    BY <1>2, <2>1, <2>3 DEF Untouched, Stored, Cluster!Create
  <2> QED BY <2>1, <2>4 DEF Cluster!Next
<1>3. ASSUME IInv, Create \/ CreateUnclear PROVE [Cluster!Next]_request
  BY <1>2, <1>3 DEF Create, CreateUnclear
<1>4. ASSUME NEW c \in Commands, Rule(c) \/ EditOrDelete(c) PROVE Cluster!Next
  BY <1>4 DEF Rule, EditOrDelete, Cluster!Next
<1>5. ASSUME Tick PROVE Cluster!Next
  BY <1>5 DEF Tick, Cluster!Next
<1>6. IInv /\ [Next]_vars => [Cluster!Next]_request
  BY <1>3, <1>4, <1>5
  DEF Next, Take, DescribeUser, CreateDenied, Look, ReadVerdict, ReadNothing, Post, Crash, Restart,
      Type, vars
<1> QED BY <1>1, <1>6, AlwaysIInv, PTL DEF Spec, Cluster!Spec

\* No verdict is awaited for longer than the timeout, one interval and one call.
THEOREM WaitIsBounded == Spec => []AwaitedInTime
<1>1. IInv => AwaitedInTime
  <2>1. SUFFICES ASSUME IInv, bot # None
                 PROVE  bot.waited <= VerdictTimeout + 1 + CallTime
    BY DEF AwaitedInTime
  <2>2. /\ bot.stage \in Stages
        /\ bot.waited \in Nat /\ bot.call \in 0 .. CallTime
    BY <2>1, HandType DEF IInv
  <2> QED BY <2>1, <2>2, TimeAssumption DEF IInv, Timely, Stages
<1> QED BY <1>1, AlwaysIInv, PTL

-----------------------------------------------------------------------------
(* How long an acknowledgement may take.                                    *)

\* The commands that the bot is done with.
Finished == {d \in Commands : ask[d] # None /\ ~Delivered(d) /\ ~InHand(d)}

\* The longest that the command in hand may have been there already.
Spent ==
    IF bot = None THEN 0
    ELSE IF bot.stage = "describe" THEN bot.call
    ELSE IF bot.stage = "create" THEN CallTime + bot.call
    ELSE IF bot.stage = "post" THEN 2 * CallTime + (VerdictTimeout + 1 + CallTime) + bot.call
    ELSE 2 * CallTime + bot.waited

\* The sum over the commands ahead: those it is done with, and the one in hand.
Allowance == Cardinality(Finished) * Longest + Spent

Turns == /\ ~up => inbox = <<>>
         /\ \A c \in Commands : IF Delivered(c) THEN unacked[c] <= Allowance
                                ELSE unacked[c] = 0

LEMMA SpentType ==
    ASSUME IInv
    PROVE  Spent \in Nat /\ Longest \in Nat /\ Spent <= Longest
<1>1. CallTime \in Nat /\ VerdictTimeout \in Nat
  BY TimeAssumption
<1>2. CASE bot = None
  BY <1>1, <1>2 DEF Spent, Longest
<1>3. CASE bot # None
  <2>1. /\ bot.stage \in Stages
        /\ bot.waited \in Nat /\ bot.call \in 0 .. CallTime
    BY <1>3, HandType DEF IInv
  <2>2. bot.stage \in {"look", "sleep"} => bot.waited <= VerdictTimeout + 1 + CallTime
    BY <1>1, <1>3, <2>1 DEF IInv, Timely
  <2> QED BY <1>1, <1>3, <2>1, <2>2 DEF Spent, Longest, Stages
<1> QED BY <1>2, <1>3

LEMMA FinishedFinite == IsFiniteSet(Finished) /\ Cardinality(Finished) \in Nat
<1>1. Finished \subseteq Commands
  BY DEF Finished
<1> QED BY <1>1, CommandsAssumption, FS_Subset, FS_CardinalityType

LEMMA Shares ==
    ASSUME NEW m \in Nat, NEW n \in Nat, NEW k \in Nat, m <= n
    PROVE  /\ m * k \in Nat /\ n * k \in Nat /\ m * k <= n * k
           /\ (m + 1) * k = m * k + k
<1>1. PICK d \in Nat : n = m + d
  <2>1. n - m \in Nat /\ n = m + (n - m)
    OBVIOUS
  <2> QED BY <2>1
<1>2. n * k = m * k + d * k /\ d * k \in Nat /\ m * k \in Nat
  BY <1>1
<1> QED BY <1>2

LEMMA AllowanceType == ASSUME IInv PROVE Allowance \in Nat
BY SpentType, FinishedFinite, Shares DEF Allowance

\* A step that neither delivers nor takes a command, and leaves the bot with the one it
\* has, adds to what has been spent on it, if anything.
LEMMA HandGoesOn ==
    ASSUME IInv, Turns, UNCHANGED <<up, ask, unacked, inbox>>,
           bot = None => bot' = None,
           bot # None => bot' # None /\ bot'.command = bot.command,
           Spent' \in Nat, Spent <= Spent'
    PROVE  Turns'
<1>1. \A c \in Commands : InHand(c)' = InHand(c) /\ Delivered(c)' = Delivered(c)
  BY DEF InHand, Delivered
<1>2. Finished' = Finished
  BY <1>1 DEF Finished
<1>3. Allowance <= Allowance'
  <2>1. Cardinality(Finished) * Longest \in Nat /\ Longest' = Longest
    BY SpentType, FinishedFinite, Shares DEF Longest
  <2>2. Spent \in Nat
    BY SpentType
  <2> QED BY <1>2, <2>1, <2>2 DEF Allowance
<1>4. ASSUME NEW c \in Commands, Delivered(c) PROVE unacked[c] <= Allowance'
  <2>1. unacked[c] <= Allowance /\ unacked[c] \in Nat
    BY <1>4 DEF Turns, IInv, TypeOK
  <2>2. Allowance' \in Nat
    <3>1. Allowance' = Cardinality(Finished) * Longest + Spent'
      BY <1>2 DEF Allowance, Longest
    <3>2. Cardinality(Finished) * Longest \in Nat
      BY SpentType, FinishedFinite, Shares
    <3> QED BY <3>1, <3>2
  <2> QED BY <1>3, <2>1, <2>2, AllowanceType
<1> QED BY <1>1, <1>4 DEF Turns

LEMMA ReplyStarts ==
    ASSUME NEW c \in Commands, NEW text \in Texts
    PROVE  Reply(c, text).call = 0
BY DEF Reply, At

\* The bot proceeds with the command in hand.
LEMMA DescribeTurns == IInv /\ Turns /\ DescribeUser => Turns'
<1> SUFFICES ASSUME IInv, Turns, DescribeUser PROVE Turns'
  OBVIOUS
<1>1. /\ bot # None /\ bot.stage = "describe" /\ bot.command \in Commands
      /\ bot.call \in 0 .. CallTime /\ CallTime \in Nat
  BY HandType, TimeAssumption DEF DescribeUser, IInv
<1>2. bot' = At(bot.command, "create") /\ "create" \in Stages
  BY DEF DescribeUser, Stages
<1>3. bot' # None /\ bot'.command = bot.command /\ bot'.stage = "create" /\ bot'.call = 0
  BY <1>1, <1>2, AtType
<1>4. Spent = bot.call /\ Spent' = CallTime
  BY <1>1, <1>3 DEF Spent
<1> QED BY <1>1, <1>3, <1>4, HandGoesOn DEF DescribeUser

LEMMA HandTurns == IInv /\ Turns /\ (Create \/ CreateDenied \/ CreateUnclear \/ Look) => Turns'
<1> SUFFICES ASSUME IInv, Turns, Create \/ CreateDenied \/ CreateUnclear \/ Look PROVE Turns'
  OBVIOUS
<1> DEFINE c == bot.command
<1>1. UNCHANGED <<up, ask, unacked, inbox>> /\ bot # None
  BY DEF Create, CreateDenied, CreateUnclear, Look, ReadVerdict, ReadNothing, Creating, Looking
<1>2. /\ bot \in Handling /\ c \in Commands /\ bot.waited \in Nat /\ bot.call \in 0 .. CallTime
      /\ CallTime \in Nat /\ VerdictTimeout \in Nat
  BY <1>1, HandType, TimeAssumption DEF IInv
<1>3. ASSUME NEW text \in Texts, bot' = Reply(c, text) PROVE Turns'
  <2>1. bot' # None /\ bot'.command = c /\ bot'.stage = "post" /\ bot'.call = 0
    BY <1>2, <1>3, ReplyType, ReplyStarts
  <2>2. Spent' = Longest - CallTime /\ Spent' \in Nat
    BY <1>2, <2>1 DEF Spent, Longest
  <2>3. Spent <= Longest - CallTime
    <3>1. bot.stage = "create" \/ bot.stage = "look"
      BY DEF Create, CreateDenied, CreateUnclear, Look, ReadVerdict, ReadNothing, Creating, Looking
    <3>2. CASE bot.stage = "create"
      BY <1>1, <1>2, <3>2 DEF Spent, Longest
    <3>3. CASE bot.stage = "look"
      BY <1>1, <1>2, <3>3 DEF Spent, Longest, IInv, Timely
    <3> QED BY <3>1, <3>2, <3>3
  <2> QED BY <1>1, <2>1, <2>2, <2>3, HandGoesOn
<1>4. CASE Create
  <2>1. bot' = At(c, "look") /\ bot.stage = "create"
    BY <1>4 DEF Create, Creating
  <2>2. /\ bot' # None /\ bot'.command = c /\ bot'.stage = "look" /\ bot'.waited = 0
    BY <1>2, <2>1, AtType DEF Stages
  <2>3. Spent = CallTime + bot.call /\ Spent' = 2 * CallTime
    BY <1>1, <1>2, <2>1, <2>2 DEF Spent
  <2> QED BY <1>1, <1>2, <2>2, <2>3, HandGoesOn
<1>5. CASE CreateDenied \/ CreateUnclear
  BY <1>3, <1>5 DEF CreateDenied, CreateUnclear, Texts, Refusals
<1>6. CASE ReadVerdict
  BY <1>3, <1>6 DEF ReadVerdict, TextOf, Texts
<1>7. CASE ReadNothing
  <2>1. CASE bot.waited > VerdictTimeout
    BY <1>3, <1>7, <2>1 DEF ReadNothing, Texts
  <2>2. CASE ~(bot.waited > VerdictTimeout)
    <3>1. bot' = [bot EXCEPT !.stage = "sleep"] /\ bot.stage = "look"
      BY <1>7, <2>2 DEF ReadNothing, Looking
    <3>2. bot' \in Handling /\ bot'.command = c /\ bot'.stage = "sleep" /\ bot'.waited = bot.waited
      BY <1>2, <3>1 DEF Handling, Stages
    <3>3. bot' # None
      BY <3>2, NoneAssumption
    <3>4. Spent = 2 * CallTime + bot.waited /\ Spent' = 2 * CallTime + bot.waited
      BY <1>1, <3>1, <3>2, <3>3 DEF Spent
    <3> QED BY <1>1, <1>2, <3>2, <3>3, <3>4, HandGoesOn
  <2> QED BY <2>1, <2>2
<1> QED BY <1>4, <1>5, <1>6, <1>7 DEF Look

\* Taking a command acknowledges it, and the others wait on; it is not done with yet.
LEMMA TakeTurns == IInv /\ Turns /\ Take => Turns'
<1> SUFFICES ASSUME IInv, Turns, Take PROVE Turns'
  OBVIOUS
<1>1. TypeOK /\ Once /\ inbox # <<>> /\ bot = None /\ up
  BY DEF IInv, Take
<1> PICK c \in Commands : c = Head(inbox)
  BY <1>1, TailOnce
<1>2. /\ Delivered(c)
      /\ \A i \in 1 .. Len(Tail(inbox)) :
            /\ Tail(inbox)[i] # c
            /\ \E j \in 1 .. Len(inbox) : inbox[j] = Tail(inbox)[i]
      /\ \A i \in 2 .. Len(inbox) : i - 1 \in 1 .. Len(Tail(inbox))
                                    /\ Tail(inbox)[i - 1] = inbox[i]
  <2>1. \A i \in 2 .. Len(inbox) : i - 1 \in 1 .. Len(Tail(inbox))
                                   /\ Tail(inbox)[i - 1] = inbox[i]
    BY <1>1 DEF TypeOK
  <2> QED BY <1>1, <2>1, TailOnce
<1>3. /\ inbox' = Tail(inbox) /\ up' /\ ask' = ask
      /\ unacked' = [unacked EXCEPT ![c] = 0]
  BY <1>1 DEF Take
<1>4. /\ bot' # None /\ bot'.command = c
      /\ Spent' \in Nat
  <2>1. ASSUME NEW text \in {"unmapped", "usage"}, bot' = Reply(c, text)
        PROVE  bot' # None /\ bot'.command = c /\ Spent' \in Nat
    <3>1. text \in Texts
      BY DEF Texts, Refusals
    <3>2. bot' # None /\ bot'.command = c /\ bot'.stage = "post" /\ bot'.call = 0
      BY <1>2, <2>1, <3>1, ReplyType, ReplyStarts
    <3> QED BY <3>2, TimeAssumption DEF Spent
  <2>2. ASSUME bot' = At(c, "describe")
        PROVE  bot' # None /\ bot'.command = c /\ Spent' \in Nat
    <3>1. bot' # None /\ bot'.command = c /\ bot'.stage = "describe" /\ bot'.call = 0
      BY <1>2, <2>2, AtType DEF Stages
    <3> QED BY <3>1 DEF Spent
  <2> QED BY <2>1, <2>2 DEF Take
<1>5. unacked'[c] = 0 /\ \A x \in Commands \ {c} : unacked'[x] = unacked[x]
  BY <1>1, <1>2, <1>3 DEF TypeOK
<1>6. ~Delivered(c)'
  BY <1>2, <1>3 DEF Delivered
<1>7. ASSUME NEW x \in Commands \ {c} PROVE Delivered(x)' <=> Delivered(x)
  <2>1. Delivered(x)' => Delivered(x)
    BY <1>2, <1>3 DEF Delivered
  <2>2. ASSUME Delivered(x) PROVE Delivered(x)'
    <3>1. PICK i \in 1 .. Len(inbox) : inbox[i] = x
      BY <2>2 DEF Delivered
    <3>2. i # 1
      BY <1>7, <3>1
    <3>3. i \in 2 .. Len(inbox)
      BY <1>1, <3>1, <3>2 DEF TypeOK
    <3> QED BY <1>2, <1>3, <3>1, <3>3 DEF Delivered
  <2> QED BY <2>1, <2>2
<1>8. Finished' = Finished
  <2>1. \A x \in Commands : InHand(x)' <=> x = c
    BY <1>4 DEF InHand
  <2>2. \A x \in Commands : ~InHand(x)
    BY <1>1 DEF InHand
  <2> QED BY <1>2, <1>3, <1>6, <1>7, <2>1, <2>2 DEF Finished
<1>9. Allowance' \in Nat /\ Allowance <= Allowance'
  <2>1. Cardinality(Finished) * Longest \in Nat
    BY SpentType, FinishedFinite, Shares
  <2>2. Spent = 0
    BY <1>1 DEF Spent
  <2>3. Allowance' = Cardinality(Finished) * Longest + Spent'
    BY <1>8 DEF Allowance, Longest
  <2> QED BY <1>4, <2>1, <2>2, <2>3 DEF Allowance
<1>10. ASSUME NEW x \in Commands
       PROVE  IF Delivered(x)' THEN unacked'[x] <= Allowance' ELSE unacked'[x] = 0
  <2>1. CASE x = c
    BY <1>5, <1>6, <2>1
  <2>2. CASE x # c
    <3>1. unacked'[x] = unacked[x] /\ unacked[x] \in Nat
      BY <1>1, <1>5, <2>2 DEF TypeOK
    <3>2. Delivered(x)' <=> Delivered(x)
      BY <1>7, <2>2
    <3> QED BY <1>9, <3>1, <3>2, AllowanceType DEF Turns
  <2> QED BY <2>1, <2>2
<1> QED BY <1>3, <1>10 DEF Turns

\* One more that the bot is done with, which had its share.
LEMMA PostTurns == IInv /\ Turns /\ Post => Turns'
<1> SUFFICES ASSUME IInv, Turns, Post PROVE Turns'
  OBVIOUS
<1> DEFINE d == bot.command
<1>1. /\ bot # None /\ bot' = None /\ UNCHANGED <<up, ask, unacked, inbox>>
      /\ d \in Commands /\ InHand(d) /\ ask[d] # None /\ ~Delivered(d)
  <2>1. bot # None /\ bot' = None /\ UNCHANGED <<up, ask, unacked, inbox>>
    BY DEF Post
  <2>2. d \in Commands /\ InHand(d)
    BY <2>1, HandType DEF IInv, InHand
  <2> QED BY <2>1, <2>2 DEF IInv, Hand, Waiting
<1>2. \A x \in Commands : Delivered(x)' = Delivered(x) /\ ~InHand(x)' /\ (InHand(x) <=> x = d)
  BY <1>1 DEF Delivered, InHand
<1>3. Finished' = Finished \union {d} /\ d \notin Finished
  BY <1>1, <1>2 DEF Finished
<1>4. Cardinality(Finished') = Cardinality(Finished) + 1
  BY <1>3, FinishedFinite, FS_AddElement
<1>5. Allowance' \in Nat /\ Allowance <= Allowance'
  <2>1. Spent' = 0 /\ Longest' = Longest
    BY <1>1 DEF Spent, Longest
  <2>2. /\ Cardinality(Finished) * Longest \in Nat
        /\ (Cardinality(Finished) + 1) * Longest = Cardinality(Finished) * Longest + Longest
    BY SpentType, FinishedFinite, Shares
  <2>3. Allowance' = Cardinality(Finished) * Longest + Longest
    BY <1>4, <2>1, <2>2, SpentType DEF Allowance
  <2> QED BY <2>2, <2>3, SpentType DEF Allowance
<1>6. ASSUME NEW x \in Commands
      PROVE  IF Delivered(x)' THEN unacked'[x] <= Allowance' ELSE unacked'[x] = 0
  <2>1. unacked'[x] = unacked[x] /\ unacked[x] \in Nat
    BY <1>1 DEF IInv, TypeOK
  <2> QED BY <1>2, <1>5, <2>1, AllowanceType DEF Turns
<1> QED BY <1>1, <1>6 DEF Turns

\* Nobody is left waiting for a bot that is gone.
LEMMA CrashTurns == IInv /\ Turns /\ (Crash \/ Restart) => Turns'
<1>1. ASSUME IInv, Turns, Crash PROVE Turns'
  <2>1. inbox' = <<>> /\ \A c \in Commands : unacked'[c] = 0
    BY <1>1 DEF Crash
  <2> QED BY <2>1 DEF Turns, Delivered
<1>2. ASSUME IInv, Turns, Restart PROVE Turns'
  <2>1. Spent' = Spent /\ Spent \in Nat /\ inbox' = <<>> /\ unacked' = unacked
    BY <1>2, SpentType DEF Restart, Spent, Turns
  <2>2. inbox = <<>> /\ \A c \in Commands : ~Delivered(c) /\ ~Delivered(c)'
    BY <1>2, <2>1 DEF Restart, Delivered, Turns
  <2> QED BY <1>2, <2>1, <2>2 DEF Turns
<1> QED BY <1>1, <1>2

\* A new command has not waited yet.
LEMMA TypeTurns == ASSUME NEW d \in Commands PROVE IInv /\ Turns /\ Type(d) => Turns'
<1> SUFFICES ASSUME IInv, Turns, Type(d) PROVE Turns'
  OBVIOUS
<1>1. /\ inbox \in Seq(Commands) /\ Len(inbox) \in Nat
      /\ ~Delivered(d) /\ ~InHand(d) /\ ask[d] = None
  BY DEF IInv, TypeOK, Type, Unasked
<1>2. up /\ up' /\ inbox' = Append(inbox, d) /\ UNCHANGED <<unacked, bot>>
  BY DEF Type
<1>3. /\ Len(inbox') = Len(inbox) + 1
      /\ \A i \in 1 .. Len(inbox) : inbox'[i] = inbox[i] /\ i \in 1 .. Len(inbox')
      /\ inbox'[Len(inbox) + 1] = d /\ Len(inbox) + 1 \in 1 .. Len(inbox')
      /\ \A i \in 1 .. Len(inbox') : i \in 1 .. Len(inbox) \/ i = Len(inbox) + 1
  BY <1>1, <1>2
<1>4. Delivered(d)' /\ \A x \in Commands \ {d} : Delivered(x)' <=> Delivered(x)
  BY <1>3 DEF Delivered
<1>5. \A x \in Commands \ {d} : ask'[x] = ask[x]
  BY DEF Type, IInv, TypeOK
<1>6. \A x \in Commands : InHand(x)' = InHand(x)
  BY <1>2 DEF InHand
<1>7. Finished' = Finished
  BY <1>1, <1>4, <1>5, <1>6 DEF Finished
<1>8. Allowance' = Allowance
  BY <1>2, <1>7 DEF Allowance, Spent, Longest
<1>9. 0 <= Allowance
  BY AllowanceType
<1> QED BY <1>1, <1>2, <1>4, <1>8, <1>9 DEF Turns

\* The people and the cluster make nobody wait.
LEMMA OthersTurns ==
    IInv /\ Turns /\ (\E c \in Commands : Rule(c) \/ EditOrDelete(c)) => Turns'
<1> SUFFICES ASSUME IInv, Turns, UNCHANGED <<up, ask, unacked, inbox, bot>> PROVE Turns'
  BY DEF Rule, EditOrDelete
<1>1. Spent' = Spent /\ Spent \in Nat
  BY SpentType DEF Spent
<1> QED BY <1>1, HandGoesOn

\* While a command waits, what is in hand takes just as much longer.
LEMMA TickTurns == IInv /\ Turns /\ Tick => Turns'
<1> SUFFICES ASSUME IInv, Turns, Tick PROVE Turns'
  OBVIOUS
<1>1. UNCHANGED <<up, ask, inbox>> /\ \A c \in Commands : Delivered(c)' = Delivered(c)
  BY DEF Tick, Delivered
<1>2. ASSUME NEW c \in Commands
      PROVE  /\ unacked[c] \in Nat
             /\ ~Delivered(c) => unacked'[c] = unacked[c]
             /\ Delivered(c) => unacked'[c] \in Nat /\ unacked'[c] <= unacked[c] + 1
  BY TimeAssumption DEF Tick, IInv, TypeOK
<1>3. CASE inbox = <<>>
  BY <1>1, <1>2, <1>3 DEF Turns, Delivered
<1>4. CASE inbox # <<>>
  <2>1. bot # None
    BY <1>4 DEF Tick, Turns
  <2>2. /\ bot \in Handling /\ bot.waited \in Nat /\ bot.call \in 0 .. CallTime
        /\ bot.stage \in Stages
        /\ CallTime \in Nat /\ VerdictTimeout \in Nat
    BY <2>1, HandType, TimeAssumption DEF IInv
  <2>3. bot' = IF bot.stage = "sleep"
               THEN [bot EXCEPT !.stage = "look", !.call = 0, !.waited = @ + 1]
               ELSE [bot EXCEPT !.call = @ + 1,
                                !.waited = IF bot.stage = "look" THEN @ + 1 ELSE @]
    BY <2>1 DEF Tick
  <2>4. /\ bot'.command = bot.command
        /\ bot.stage = "describe" => bot'.stage = "describe" /\ bot'.call = bot.call + 1
        /\ bot.stage = "create" => bot'.stage = "create" /\ bot'.call = bot.call + 1
        /\ bot.stage = "post" => bot'.stage = "post" /\ bot'.call = bot.call + 1
        /\ bot.stage \in {"look", "sleep"} => bot'.stage = "look"
                                              /\ bot'.waited = bot.waited + 1
    BY <2>2, <2>3 DEF Handling
  <2>5. bot' # None
    <3>1. CASE bot.stage = "sleep"
      <4>1. bot' = [bot EXCEPT !.stage = "look", !.call = 0, !.waited = @ + 1]
        BY <2>3, <3>1
      <4>2. 0 \in 0 .. CallTime /\ bot.waited + 1 \in Nat
        BY <2>2
      <4>3. bot' \in Handling
        BY <2>2, <4>1, <4>2 DEF Handling, Stages
      <4> QED BY <4>3, NoneAssumption
    <3>2. CASE bot.stage # "sleep"
      <4>1. bot.call < CallTime
        BY <2>1, <3>2 DEF Tick
      <4>2. bot.call + 1 \in 0 .. CallTime /\ bot.waited + 1 \in Nat
        BY <2>2, <4>1
      <4>3. bot' \in Handling
        BY <2>2, <2>3, <3>2, <4>2 DEF Handling
      <4> QED BY <4>3, NoneAssumption
    <3> QED BY <3>1, <3>2
  <2>6. Spent' = Spent + 1
    BY <2>1, <2>2, <2>4, <2>5 DEF Spent, Stages
  <2>7. Finished' = Finished
    <3>1. \A x \in Commands : InHand(x)' = InHand(x)
      BY <2>1, <2>4, <2>5 DEF InHand
    <3> QED BY <1>1, <3>1 DEF Finished
  <2>8. Allowance' = Allowance + 1
    <3>1. Cardinality(Finished) * Longest \in Nat /\ Longest' = Longest
      BY SpentType, FinishedFinite, Shares DEF Longest
    <3> QED BY <2>6, <2>7, <3>1, SpentType DEF Allowance
  <2> QED BY <1>1, <1>2, <2>8, AllowanceType DEF Turns
<1> QED BY <1>3, <1>4

LEMMA InitTurns == Init => Turns
BY DEF Init, Turns, Delivered

LEMMA NextTurns == IInv /\ Turns /\ [Next]_vars => Turns'
<1>1. ASSUME IInv, Turns, UNCHANGED vars PROVE Turns'
  <2>1. UNCHANGED <<up, ask, unacked, inbox, bot>> /\ Spent' = Spent /\ Spent \in Nat
    BY <1>1, SpentType DEF vars, Spent
  <2> QED BY <1>1, <2>1, HandGoesOn
<1> QED BY <1>1, HandTurns, DescribeTurns, TakeTurns, PostTurns, CrashTurns, TypeTurns, OthersTurns, TickTurns
        DEF Next

\* Nobody waits for the acknowledgement longer than the commands ahead can take, each at
\* its longest: of N commands, N - 1 can be ahead.
THEOREM EveryoneGetsATurn == Spec => []AcknowledgedInTurn
<1>1. ASSUME IInv, Turns, NEW c \in Commands
      PROVE  unacked[c] <= (Cardinality(Commands) - 1) * Longest
  <2> DEFINE N == Cardinality(Commands) - 1
             Done == Cardinality(Finished)
  <2>1. /\ IsFiniteSet(Commands \ {c}) /\ Cardinality(Commands \ {c}) = N
        /\ N \in Nat
    <3>1. /\ IsFiniteSet(Commands \ {c})
          /\ Cardinality(Commands \ {c}) = Cardinality(Commands) - 1
      BY CommandsAssumption, FS_RemoveElement
    <3>2. Cardinality(Commands \ {c}) \in Nat
      BY <3>1, FS_CardinalityType
    <3> QED BY <3>1, <3>2
  <2>2. Done \in Nat /\ IsFiniteSet(Finished) /\ Longest \in Nat /\ Spent \in Nat
        /\ Spent <= Longest /\ unacked[c] \in Nat
    BY <1>1, FinishedFinite, SpentType DEF IInv, TypeOK
  <2>3. N * Longest \in Nat /\ Done * Longest \in Nat
    BY <2>1, <2>2, Shares
  <2>4. CASE ~Delivered(c)
    BY <1>1, <2>3, <2>4 DEF Turns
  <2>5. CASE Delivered(c) /\ bot = None
    <3>1. Finished \subseteq Commands \ {c}
      BY <2>5 DEF Finished
    <3>2. Done <= N
      BY <2>1, <3>1, FS_Subset
    <3>3. Done * Longest <= N * Longest
      BY <2>1, <2>2, <3>2, Shares
    <3> QED BY <1>1, <2>2, <2>3, <2>5, <3>3 DEF Turns, Allowance, Spent
  <2>6. CASE Delivered(c) /\ bot # None
    <3>1. bot.command \in Commands \ {c} /\ bot.command \notin Finished
      BY <1>1, <2>6, HandType DEF IInv, Waiting, InHand, Finished
    <3>2. Finished \union {bot.command} \subseteq Commands \ {c}
      BY <2>6, <3>1 DEF Finished
    <3>3. Cardinality(Finished \union {bot.command}) = Done + 1
      BY <2>2, <3>1, FS_AddElement
    <3>4. Done + 1 <= N
      BY <2>1, <3>2, <3>3, FS_Subset
    <3>5. (Done + 1) * Longest = Done * Longest + Longest
          /\ (Done + 1) * Longest <= N * Longest
      BY <2>1, <2>2, <3>4, Shares
    <3>6. unacked[c] <= Done * Longest + Spent
      BY <1>1, <2>6 DEF Turns, Allowance
    <3>7. unacked[c] <= N * Longest
      <4> HIDE DEF Done, N
      <4> QED BY <2>2, <2>3, <3>5, <3>6
    <3> QED BY <3>7
  <2> QED BY <2>4, <2>5, <2>6
<1>2. IInv /\ Turns => AcknowledgedInTurn
  BY <1>1 DEF AcknowledgedInTurn
<1>3. Spec => []Turns
  BY InitTurns, NextTurns, AlwaysIInv, PTL DEF Spec
<1> QED BY <1>2, <1>3, AlwaysIInv, PTL
=============================================================================
