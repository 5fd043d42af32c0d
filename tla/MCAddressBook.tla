---------------------------- MODULE MCAddressBook ----------------------------
(* AddressBook for TLC: handlers, names and IP versions are interchangeable.  Once a stale *)
(* handler has written the properties promise nothing; one that has still to ask either    *)
(* gets there or gives up, as if it had never come.  Those states are not continued.       *)
EXTENDS AddressBook, TLC

Symmetry == Permutations(Handlers) \union Permutations(Names) \union Permutations(Families)
Rows == [t \in {"objects", "groups", "rules"} |-> IF t = "objects" THEN 2 ELSE 1]
Inputs ==
  [rules |-> [src : Names, dst : {AnyAddress}] \union [src : Families, dst : Names],
   groups |-> {g \in [name : Names, members : SUBSET Names] : g.name \notin g.members}]
WhileSound == sound /\ \A h \in Handlers : tasks[h].stale => tasks[h].todo = <<>>
=============================================================================
