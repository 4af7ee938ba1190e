----------------------------- MODULE MCFailover -----------------------------
(* Small instances of Failover: the telemetry and the error loop, both     *)
(* intervals of two ticks, two failures to a back-off.                     *)
EXTENDS Failover
=============================================================================
