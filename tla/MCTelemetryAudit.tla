------------------------- MODULE MCTelemetryAudit --------------------------
(***************************************************************************)
(* TelemetryAudit for TLC: one audit next to one append to the case log.   *)
(***************************************************************************)
EXTENDS TelemetryAudit
=============================================================================
