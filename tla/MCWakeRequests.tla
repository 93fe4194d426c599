--------------------------- MODULE MCWakeRequests ---------------------------
(* Constant values for the model-checking runs of WakeRequests.            *)
EXTENDS WakeRequests

Everything == AllDisturbances
=============================================================================
