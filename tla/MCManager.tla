----------------------------- MODULE MCManager -----------------------------
(* Finite instances of Manager for TLC. *)
EXTENDS Manager

(* Two names that differ in more than case.                                *)
Distinct == [n \in Names |-> n]
=============================================================================
