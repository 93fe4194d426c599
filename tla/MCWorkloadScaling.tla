------------------------- MODULE MCWorkloadScaling -------------------------
(* Constant values for the model-checking runs of WorkloadScaling.         *)
EXTENDS WorkloadScaling

Window(min, respect, policy, suspend) ==
    [minReplicas |-> min, respectManualScale |-> respect, hpaPolicy |-> policy,
     suspend |-> suspend, selects |-> Deployments]

\* The defaults of the CRD: down to zero, people win, HPAs are left alone.
DefaultSpecs == {Window(0, TRUE, "Warn", FALSE)}

\* Windows that disagree about the floor and about people.
DisagreeingSpecs == {Window(0, TRUE, "Warn", FALSE), Window(1, FALSE, "Scale", FALSE)}

\* A window whose owner suspends it, drives HPAs with it, or overrules people.
EditedSpecs == {Window(0, TRUE, "Skip", FALSE), Window(0, FALSE, "Scale", FALSE),
                Window(0, TRUE, "Warn", TRUE)}

\* What may happen, run by run.
Nothing     == {}
AllButStrip == AllDisturbances \ {"strip"}
Overlapping == {"scale", "edit", "boundary", "fault", "crash"}
Stripped    == {"scale", "strip", "boundary", "crash"}
PeopleOnly  == {"scale", "boundary"}
HPAOnly     == {"hpa", "boundary"}

\* The status is written and never read by a pass: runs that check nothing of
\* it tell states apart by the rest.
ButStatus == <<server, cache, feed, own, spec, scheduled, woken, hpaTargets, pass, held>>
=============================================================================
