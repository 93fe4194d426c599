----------------------------- MODULE NodeCensus -----------------------------
(* What a pass makes of one listing of the cluster's nodes, pods and       *)
(* PodDisruptionBudgets: functions of the listing, without state.          *)
EXTENDS FiniteSets, Integers

NodeType   == [controlPlane : BOOLEAN, fargate : BOOLEAN, reclaimable : BOOLEAN]
PodPhases  == {"Pending", "Running", "Succeeded", "Failed"}
BudgetType == [allowed : Nat, healthy : Nat]

\* Neither the control plane's nodes, nor those that exist only for one pod, nor
\* those outside the operator's selector are candidates.
IsWorker(node) == node.reclaimable /\ ~node.controlPlane /\ ~node.fargate

\* Mutant: a pod that is over still counts.
HoldsWhileListed(pod) == ~pod.daemon

\* podHoldsNode: the pod would have to find another place first.
HoldsNode(pod) == pod.phase \notin {"Succeeded", "Failed"} /\ ~pod.daemon

\* Mutant: every node that a pod holds is taken off, listed or not.
CensusBySubtraction(nodes, pods) ==
    LET workers == {n \in DOMAIN nodes : IsWorker(nodes[n])}
        held    == {pods[p].node : p \in {q \in DOMAIN pods : HoldsNode(pods[q])}}
    IN [workers   |-> Cardinality(workers),
        drainable |-> Cardinality(workers) - Cardinality(held)]

\* countDrainableNodes, of functions from names to nodes and to pods.
Census(nodes, pods) ==
    LET holders(n) == Cardinality({p \in DOMAIN pods : pods[p].node = n /\ HoldsNode(pods[p])})
        workers    == {n \in DOMAIN nodes : IsWorker(nodes[n])}
    IN [workers   |-> Cardinality(workers),
        drainable |-> Cardinality({n \in workers : holders(n) = 0})]

\* pdbsBlockingDrain: a budget that guards nothing refuses nothing.
Blocking(budgets) ==
    {b \in DOMAIN budgets : budgets[b].allowed = 0 /\ budgets[b].healthy > 0}
=============================================================================
