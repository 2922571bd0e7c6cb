--------------------------- MODULE MCHealthCheck ---------------------------
(* Instances of HealthCheck for TLC. *)
EXTENDS HealthCheck

TwoSchedules == {1, 2}
=============================================================================
