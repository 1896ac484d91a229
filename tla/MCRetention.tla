---------------------------- MODULE MCRetention ----------------------------
(***************************************************************************)
(* An instance of Retention: hours of two points of time, days of four.    *)
(***************************************************************************)
EXTENDS Retention, CheckQueries, TelemetryShare

MCLength == [hourly |-> 2, daily |-> 4]
=============================================================================
