------------------------------ MODULE MCMetrics ------------------------------
(* Finite instances of Metrics for TLC. *)
EXTENDS Metrics
=============================================================================
