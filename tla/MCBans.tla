------------------------------- MODULE MCBans --------------------------------
EXTENDS Bans, TLC

Symmetry == Permutations(Ips)
=============================================================================
