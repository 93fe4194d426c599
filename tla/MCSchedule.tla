----------------------------- MODULE MCSchedule -----------------------------
(* Constant values for the model-checking runs of Schedule.                *)
EXTENDS Schedule

Pair(sleep, wake) == [sleepAt |-> sleep, wakeAt |-> wake]

\* A night and a day; two short windows; a window at the end of the cycle; one
\* that is never declared to end, and one whose expressions never fire.
DeclaredPairs == {Pair({2}, {8}), Pair({0, 6}, {3, 9}), Pair({11}, {0}),
                  Pair({4}, {}), Pair({}, {})}

\* Down every night, up on working days only: two sleeps in a row.
NightlyAndWeekdays == {Pair({2, 7}, {4})}
=============================================================================
