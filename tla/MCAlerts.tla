------------------------------- MODULE MCAlerts -------------------------------
(* A finite instance of Alerts for TLC. *)
EXTENDS Alerts
=============================================================================
