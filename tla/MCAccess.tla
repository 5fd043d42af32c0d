------------------------------- MODULE MCAccess -------------------------------
(* Access for TLC: handlers, addresses, passwords and tokens are interchangeable. *)
EXTENDS Access, TLC

Symmetry == Permutations(Handlers) \union Permutations(Addresses) \union Permutations(Passwords) \union Permutations(Tokens)
=============================================================================
