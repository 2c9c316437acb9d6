-------------------------- MODULE MCHealthReporter --------------------------
(* HealthReporter on small instances. *)
EXTENDS HealthReporter
=============================================================================
