------------------------------ MODULE Judgement ------------------------------
(* What the controller makes of a WakeRequest: shared by the module that   *)
(* shows how verdicts come about and the one that waits for them.          *)
EXTENDS Integers

Verdicts == {"Active", "Expired", "Rejected"}

\* classifyWakeRequest.  A duration that does not parse fares like one above any cap.
Classify(duration, maxWake, t) ==
    IF maxWake <= 0 \/ duration > maxWake THEN "Rejected"
    ELSE IF t < duration THEN "Active" ELSE "Expired"
=============================================================================
