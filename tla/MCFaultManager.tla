--------------------------- MODULE MCFaultManager ---------------------------
(* FaultManager with small thresholds, for TLC.                            *)
EXTENDS FaultManager
=============================================================================
