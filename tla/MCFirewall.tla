----------------------------- MODULE MCFirewall -----------------------------
(* Instances of Firewall for TLC.                                          *)
EXTENDS FirewallRefines, TLC

MCPlace == [limit |-> 1]

Symmetry == Permutations(Holders)
=============================================================================
