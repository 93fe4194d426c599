------------------------------ MODULE Requeue ------------------------------
(* The delay a pass asks for, and what the work queue makes of it.  Times  *)
(* are distances from now, in units of a model's clock.                    *)
EXTENDS Integers

CONSTANTS Margin, MaxGap, MinGap,   \* the constants of requeueAfter
          None                      \* no moment, no wait

ASSUME GapAssumption   == /\ MinGap \in Nat \ {0} /\ Margin \in Nat /\ MaxGap \in Nat
                          /\ MinGap <= Margin /\ Margin <= MaxGap
ASSUME NeverAssumption == None \notin Int

\* Mutant: the gap is not capped.
RequeueUncapped(left) ==
    IF left = None \/ left + Margin < MinGap THEN MinGap ELSE left + Margin

\* The delay, from the units left until `next' (negative once it has passed).
RequeueAfter(left) ==
    IF left = None THEN MinGap           \* the zero time is long past
    ELSE IF left + Margin > MaxGap THEN MaxGap
         ELSE IF left + Margin < MinGap THEN MinGap ELSE left + Margin

\* AddAfter: of two waits for one window the earlier stands, and a delay that is
\* not positive is no wait at all.
Requeued(wait, delay) ==
    IF delay <= 0 THEN wait
    ELSE IF wait = None \/ delay < wait THEN delay ELSE wait

\* One unit later: the wait itself, and whether it has just ended.
Elapsed(wait) == IF wait \in {None, 1} THEN None ELSE wait - 1
Ended(wait) == wait = 1
=============================================================================
