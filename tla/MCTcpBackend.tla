---------------------------- MODULE MCTcpBackend ----------------------------
(* Finite instances of TcpBackend for TLC. *)
EXTENDS TcpBackend, TLC

CONSTANTS c1, c2, c3, ip1, ip2

(* Every connection from one address: the cap is contended.                *)
OneIp == [c \in Conns |-> ip1]

(* c1 and c2 share an address, any other connection has one of its own.    *)
TwoIps == [c \in Conns |-> IF c \in {c1, c2} THEN ip1 ELSE ip2]

ConnSymmetry == Permutations(Conns)
Symmetry == Permutations(Conns) \union Permutations(Backends)
=============================================================================
