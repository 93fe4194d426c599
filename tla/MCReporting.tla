----------------------------- MODULE MCReporting -----------------------------
(* Constant values for the model-checking runs of Reporting.               *)
EXTENDS Reporting

\* The defaults of the CRD.
Warning == [suspend |-> FALSE, readable |-> TRUE, selects |-> TRUE,
            hpaPolicy |-> "Warn", respectManualScale |-> TRUE]

\* Declared, suspended, with a schedule or a selector that does not parse.
EditedSpecs == {Warning, [Warning EXCEPT !.suspend = TRUE], [Warning EXCEPT !.readable = FALSE],
                [Warning EXCEPT !.selects = FALSE]}
WarningOnly == {Warning}

NodeOf(controlPlane, fargate, reclaimable) ==
    [controlPlane |-> controlPlane, fargate |-> fargate, reclaimable |-> reclaimable]
OneWorker == [n1 |-> NodeOf(FALSE, FALSE, TRUE)]
=============================================================================
