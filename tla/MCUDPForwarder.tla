--------------------------- MODULE MCUDPForwarder ---------------------------
(* Finite instances of UDPForwarder for TLC. *)
EXTENDS UDPForwarder, TLC

(* The clients are interchangeable. Sound for the runs without liveness.   *)
Symmetry == Permutations(Clients)
=============================================================================
