---------------------------- MODULE MCTableEdits -----------------------------
(* TableEdits for TLC: handlers, names, keys and spellings are interchangeable; the three *)
(* tables with the most values are written less often.                                   *)
EXTENDS TableEdits, TLC

Symmetry == Permutations(Handlers) \union Permutations(Names) \union Permutations(Keys) \union Permutations(Spellings)
Writes == [t \in Tables |-> IF t \in {"peer", "reservation", "route"} THEN 2 ELSE 3]
=============================================================================
