------------------------------ MODULE Custody ------------------------------
(***************************************************************************)
(* What the operator promises about a workload's size, without saying how. *)
(* Each workload has a size it is owed.  A sleeping window may lower it to *)
(* a floor; from there it comes back to its size, or to what somebody else *)
(* writes.  What others write may become the new size, but never while the *)
(* workload is lowered: the size is then in the operator's keeping.        *)
(***************************************************************************)
CONSTANTS Deployments,
          Sizes,    \* counts people and autoscalers write
          Floors    \* counts a sleeping window may lower a workload to

VARIABLES count,    \* count[d]: the replica count in force
          size,     \* size[d]: the count the workload is owed
          lowered   \* lowered[d]: count[d] is the operator's doing

Init ==
    /\ count \in [Deployments -> Sizes]
    /\ size = count
    /\ lowered = [d \in Deployments |-> FALSE]

SizeKept(d) == size'[d] = size[d]

\* A sleeping window moves the workload.
Lower(d) == count'[d] \in Floors /\ lowered'[d] /\ SizeKept(d)

\* The workload is given its size back.
Restore(d) == count'[d] = size[d] /\ ~lowered'[d] /\ SizeKept(d)

\* Somebody else writes a count.
Write(d) == count'[d] \in Sizes /\ ~lowered'[d] /\ SizeKept(d)

\* A count somebody wrote is taken for the size.
Adopt(d) == /\ ~lowered[d] /\ ~lowered'[d]
            /\ count'[d] = count[d]
            /\ size'[d] \in Sizes

Stays(d) == count'[d] = count[d] /\ lowered'[d] = lowered[d] /\ SizeKept(d)

\* One step may concern several workloads: a restart takes stock of them all.
Next == \A d \in Deployments :
            Lower(d) \/ Restore(d) \/ Write(d) \/ Adopt(d) \/ Stays(d)

Spec == Init /\ [][Next]_<<count, size, lowered>>
=============================================================================
