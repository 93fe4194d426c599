------------------------------- MODULE Leases -------------------------------
(***************************************************************************)
(* What becomes of WakeRequests, as whoever asked for one sees it, without *)
(* saying how the verdicts come about.  A request is judged for what it    *)
(* asks at that time, under one of the caps there are, as of a moment that *)
(* is hardly past; and one that has ended stays so until it is lengthened. *)
(***************************************************************************)
EXTENDS Judgement

CONSTANTS Requests, Durations, Caps,
          AgeBound,  \* bound: a request older than this is this old
          Lag,       \* units between the moment judged and the verdict
          None

VARIABLE lease       \* lease[r]: the request and its age, or None

Lease == [duration : Durations, phase : Verdicts \union {""},
          expiresAfter : Durations \union {None}, age : 0 .. AgeBound]

Asked(n) == [duration |-> n, phase |-> "", expiresAfter |-> None, age |-> 0]

Init == lease = [r \in Requests |-> None]

Create(r) == /\ lease[r] = None
             /\ \E n \in Durations : lease' = [lease EXCEPT ![r] = Asked(n)]

\* Somebody asks for another duration; the verdict stands until the next.
Edit(r) == /\ lease[r] # None
           /\ \E n \in Durations : lease' = [lease EXCEPT ![r].duration = n]

Delete(r) == lease[r] # None /\ lease' = [lease EXCEPT ![r] = None]

\* The moments of which a verdict may be, and the verdicts there may be.
Moments(l) == {t \in 0 .. l.age : l.age <= t + Lag}

Rulings(l) ==
    {v \in {Classify(l.duration, n, t) : n \in Caps, t \in Moments(l)} :
        l.phase = "Expired" /\ v = "Active" => l.expiresAfter < l.duration}

Ruled(l, v) ==
    [duration |-> l.duration, phase |-> v,
     expiresAfter |-> IF v = "Rejected" THEN l.expiresAfter ELSE l.duration, age |-> l.age]

Rule(r) == /\ lease[r] # None
           /\ \E v \in Rulings(lease[r]) : lease' = [lease EXCEPT ![r] = Ruled(@, v)]

\* One unit passes for all of them.
Older(l) == IF l = None \/ l.age = AgeBound THEN l ELSE [l EXCEPT !.age = @ + 1]

Age == lease' = [r \in Requests |-> Older(lease[r])]

Next == Age \/ \E r \in Requests : Create(r) \/ Edit(r) \/ Delete(r) \/ Rule(r)

Spec == Init /\ [][Next]_lease
=============================================================================
