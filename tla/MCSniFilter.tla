---------------------------- MODULE MCSniFilter ------------------------------
(* SniFilter for TLC: a hello that fits the buffer, of a name that is allowed under a      *)
(* parent that is blocked, one that does not fit, and one of a name that is blocked.       *)
EXTENDS SniFilter, TLC

Symmetry == Permutations(Conns)

On == [enabled |-> TRUE, blockNoName |-> TRUE, blockMalformed |-> TRUE, blocked |-> {2}, allowed |-> {3}]
PolicySet == {[On EXCEPT !.enabled = FALSE], On}

HelloSet ==
  {[length |-> 2, labels |-> 3, result |-> "name"], [length |-> 3, labels |-> 3, result |-> "name"],
   [length |-> 1, labels |-> 2, result |-> "name"]}
=============================================================================
