-------------------------- MODULE MCWireguardCommit --------------------------
(* WireguardCommit for TLC: interfaces, addresses and networks are interchangeable. *)
EXTENDS WireguardCommit, TLC

Symmetry == Permutations(Ifaces) \union Permutations(Addrs) \union Permutations(Nets)
=============================================================================
