----------------------------- MODULE AddressBook -----------------------------
(***************************************************************************)
(* Address objects, the groups made of them, and the firewall rules that   *)
(* refer to either by name.  A handler is a sequence of queries, each on   *)
(* its own connection and without a lock, and a write at the end, in one   *)
(* transaction.  What the foreign keys and the UNIQUE columns do not rule  *)
(* out is up to the queries.                                               *)
(*                                                                         *)
(* A name stands for all its spellings in upper and lower case.  Of an     *)
(* address only its IP version is kept.  An id is given out once           *)
(* (AUTOINCREMENT).  The model has the enabled rules: re-enabling a rule   *)
(* is an update, with all its checks.                                      *)
(***************************************************************************)
EXTENDS Naturals, Sequences, FiniteSets

CONSTANTS
  Handlers,   \* concurrent requests
  Names,      \* names of objects and groups
  Families,   \* IP versions; in a rule, an address written out, of that version
  AnyAddress, \* a rule's empty source or destination
  Requested,  \* the groups and rules that requests ask for: a group names its members
  None,       \* no object, group, snapshot or IP version
  MaxId,      \* bound, per table: rows ever added
  MaxWrites   \* bound: successful writes

Refs == Names \union Families \union {AnyAddress}
Rules == [src : Refs, dst : Refs]

ObjectOps == {"add object", "update object", "delete object"}
GroupOps == {"add group", "update group", "delete group"}
RuleOps == {"add rule", "update rule"}

ASSUME BookAssumption ==
  /\ MaxWrites \in Nat /\ MaxId \in [{"objects", "groups", "rules"} -> Nat]
  /\ Names \intersect Families = {} /\ {AnyAddress, None} \intersect (Names \union Families) = {}
  /\ AnyAddress # None /\ None \notin ObjectOps \union GroupOps \union RuleOps
  /\ Requested.rules \subseteq Rules
  /\ Requested.groups \subseteq [name : Names, members : SUBSET Names]

VARIABLES
  objects, groups, rules,   \* the tables, by id
  last,       \* the last id given out in each
  tasks,      \* the handlers
  saved,      \* the rules of the last commit and, as a ghost, the book it saw
  sound,      \* ghost: no write relied on a query that was out of date
  writes

tables == <<objects, groups, rules, last>>
bookVars == <<tables, tasks, saved, sound, writes>>

Objects == [name : Names, family : Families]
Groups == [name : Names, members : SUBSET (1..MaxId["objects"])]

Idle == [op |-> None, id |-> 0, input |-> None, left |-> {}, old |-> None, family |-> None,
         todo |-> <<>>, stale |-> FALSE]

Distinct(t) == \A n, m \in DOMAIN t : t[n].name = t[m].name => n = m
SharedNamespace == \A n \in DOMAIN objects, m \in DOMAIN groups : objects[n].name # groups[m].name
TableOK(t, name, values) == DOMAIN t \subseteq 1..last[name] /\ \A n \in DOMAIN t : t[n] \in values

BookTypeOK ==
  /\ TableOK(objects, "objects", Objects) /\ TableOK(groups, "groups", Groups)
  /\ TableOK(rules, "rules", Rules)
  /\ \A n \in DOMAIN groups : groups[n].members \subseteq DOMAIN objects
  /\ Distinct(objects) /\ Distinct(groups)
  /\ last \in [{"objects", "groups", "rules"} -> Nat] /\ \A t \in DOMAIN last : last[t] <= MaxId[t]
  /\ \A h \in Handlers :
       /\ tasks[h].op \in ObjectOps \union GroupOps \union RuleOps \union {None}
       /\ tasks[h].family \in Families \union {None} /\ tasks[h].stale \in BOOLEAN
       /\ tasks[h].old # None => tasks[h].old \in [name : Names, family : Families \union {None}]
       /\ tasks[h].op = None => tasks[h] = Idle
  /\ saved # None => TableOK(saved.rules, "rules", Rules)
  /\ sound \in BOOLEAN /\ writes \in 0..MaxWrites

\* The book as handlers that nobody raced with have left it, in any size; no rules yet.
BookInit ==
  /\ \E n \in 0..MaxId["objects"], m \in 0..MaxId["groups"] :
       /\ last = [objects |-> n, groups |-> m, rules |-> 0]
       /\ objects \in [1..n -> Objects]
       /\ groups \in [1..m -> [name : Names, members : SUBSET (1..n)]]
  /\ Distinct(objects) /\ Distinct(groups)
  /\ SharedNamespace
  /\ \A g \in DOMAIN groups : \A n, m \in groups[g].members : objects[n].family = objects[m].family
  /\ rules = <<>>
  /\ tasks = [h \in Handlers |-> Idle]
  /\ saved = None /\ sound = TRUE /\ writes = 0

-----------------------------------------------------------------------------
(* What a query finds *)

FindObject(name) == {n \in DOMAIN objects : objects[n].name = name}
FindGroup(name) == {n \in DOMAIN groups : groups[n].name = name}
\* Mutant of NameInUse: an object may have the name of a group.
NameInUseByObject(name) == FindObject(name) # {}

\* name_in_use looks in both tables.
NameInUse(name) == FindObject(name) \union FindGroup(name) # {}
UsedByRules(name) == \E n \in DOMAIN rules : name \in {rules[n].src, rules[n].dst}
GroupsUsing(id) == {n \in DOMAIN groups : id \in groups[n].members}

\* list_groups gives a group the version of its first member by name; which one that is
\* is left open here.
GroupFamilies(n) ==
  IF groups[n].members = {} THEN {None} ELSE {objects[m].family : m \in groups[n].members}

-----------------------------------------------------------------------------
(* The queries of a handler, one after the other *)

Checks(op) ==
  CASE op = "add object"    -> <<"free">>
    [] op = "update object" -> <<"object">>
    [] op = "delete object" -> <<"object", "no groups", "unused">>
    [] op = "add group"     -> <<"members", "free">>
    [] op = "update group"  -> <<"group", "members">>
    [] op = "delete group"  -> <<"group", "unused">>
    [] op \in RuleOps       -> <<"src", "dst">>

\* Mutant of UpdateChecks: a rename only makes sure of the new name.
UpdateChecksRename(t, old, family) ==
     (IF old.name # t.input.name THEN <<"free">> ELSE <<>>)
  \o (IF old.family # family THEN <<"unused">> ELSE <<>>)
  \o (IF old.family # family /\ t.op = "update object" THEN <<"no groups">> ELSE <<>>)

\* Mutant of UpdateChecks: an object may change its version within a group.
UpdateChecksGroups(t, old, family) ==
     (IF old.name # t.input.name THEN <<"free", "unused">> ELSE <<>>)
  \o (IF old.family # family THEN <<"unused">> ELSE <<>>)

\* What update_object and update_group ask once they know the old row and the new version.
UpdateChecks(t, old, family) ==
     (IF old.name # t.input.name THEN <<"free", "unused">> ELSE <<>>)
  \o (IF old.family # family THEN <<"unused">> ELSE <<>>)
  \o (IF old.family # family /\ t.op = "update object" THEN <<"no groups">> ELSE <<>>)

\* A query gives the task that goes on, or Idle when the handler gives up.
Done(t) == [t EXCEPT !.todo = Tail(@)]
Require(t, condition) == IF condition THEN Done(t) ELSE Idle

\* get_object, get_group
AskObject(t) ==
  IF t.id \notin DOMAIN objects THEN {Idle}
  ELSE LET old == objects[t.id]
           more == IF t.op = "update object" THEN UpdateChecks(t, old, t.input.family) ELSE <<>>
       IN {[t EXCEPT !.old = old, !.todo = Tail(@) \o more]}

AskGroup(t) ==
  IF t.id \notin DOMAIN groups THEN {Idle}
  ELSE {[Done(t) EXCEPT !.old = [name |-> groups[t.id].name, family |-> f]] : f \in GroupFamilies(t.id)}

\* prepare_group looks the members up one by one; the first sets the version of the group.
\* With the last one the update knows what it changes.
AskMember(t) ==
  LET more(u) == IF u.left # {} THEN u
                 ELSE [u EXCEPT !.todo = Tail(@) \o
                         IF u.op = "update group" THEN UpdateChecks(u, u.old, u.family) ELSE <<>>]
      found(m) == {objects[n].family : n \in FindObject(m)}
  IN IF t.left = {} THEN {more(t)}
     ELSE {IF found(m) # {} /\ t.family \in found(m) \union {None}
           THEN more([t EXCEPT !.family = CHOOSE f \in found(m) : TRUE, !.left = @ \ {m}])
           ELSE Idle : m \in t.left}

\* address_is_v6 and resolve_reference: an object is looked for first, then a group, which
\* must not be empty.  Source and destination must agree.
Resolved(t, f) ==
  IF f # None /\ t.family \in {None, f} THEN [Done(t) EXCEPT !.family = f] ELSE Idle

AskEnd(t, ref, group) ==
  CASE ref = AnyAddress -> {Done(t)}
    [] ref \in Families -> {Resolved(t, ref)}
    [] ref \in Names ->
         IF FindObject(ref) # {} THEN {Resolved(t, objects[n].family) : n \in FindObject(ref)}
         ELSE {[t EXCEPT !.todo = <<group>> \o Tail(@)]}

AskEndGroup(t, ref) ==
  IF FindGroup(ref) = {} THEN {Idle}
  ELSE {Resolved(t, f) : f \in UNION {GroupFamilies(n) : n \in FindGroup(ref)}}

Answers(t) ==
  LET check == Head(t.todo)
  IN CASE check = "object"    -> AskObject(t)
       [] check = "group"     -> AskGroup(t)
       [] check = "members"   -> AskMember(t)
       [] check = "free"      -> {Require(t, ~NameInUse(t.input.name))}
       [] check = "unused"    -> {Require(t, ~UsedByRules(t.old.name))}
       [] check = "no groups" -> {Require(t, GroupsUsing(t.id) = {})}
       [] check = "src"       -> AskEnd(t, t.input.src, "src group")
       [] check = "dst"       -> AskEnd(t, t.input.dst, "dst group")
       [] check = "src group" -> AskEndGroup(t, t.input.src)
       [] check = "dst group" -> AskEndGroup(t, t.input.dst)

\* The next query of a handler; with its first one a request comes in.
Query(h, t) ==
  /\ writes < MaxWrites
  /\ \E answer \in Answers(t) : tasks' = [tasks EXCEPT ![h] = answer]
  /\ UNCHANGED <<tables, saved, sound, writes>>

Continue(h) == tasks[h].todo # <<>> /\ Query(h, tasks[h])

Request(h, op, id, input) ==
  /\ tasks[h].op = None
  /\ Query(h, [Idle EXCEPT !.op = op, !.id = id, !.input = input, !.todo = Checks(op),
                           !.left = IF op \in {"add group", "update group"} THEN input.members ELSE {}])

Room(t) == last[t] < MaxId[t]

RequestObject(h) ==
  \/ \E o \in Objects : \/ Room("objects") /\ Request(h, "add object", 0, o)
                        \/ \E n \in DOMAIN objects : Request(h, "update object", n, o)
  \/ \E n \in DOMAIN objects : Request(h, "delete object", n, None)

RequestGroup(h) ==
  \/ \E g \in Requested.groups : \/ Room("groups") /\ Request(h, "add group", 0, g)
                       \/ \E n \in DOMAIN groups : Request(h, "update group", n, g)
  \/ \E n \in DOMAIN groups : Request(h, "delete group", n, None)

RequestRule(h) ==
  \E r \in Requested.rules : \/ Room("rules") /\ Request(h, "add rule", 0, r)
                       \/ \E n \in DOMAIN rules : Request(h, "update rule", n, r)

-----------------------------------------------------------------------------
(* The write that ends a handler *)

Finishing(h, op) == tasks[h].op = op /\ tasks[h].todo = <<>>
Put(t, id, row) == [n \in DOMAIN t \union {id} |-> IF n = id THEN row ELSE t[n]]
Without(t, id) == [n \in DOMAIN t \ {id} |-> t[n]]

\* Whoever is in the middle of its queries is stale from now on.
Stale(t) == IF t.op = None THEN t ELSE [t EXCEPT !.stale = TRUE]
Written(h) ==
  /\ writes < MaxWrites /\ writes' = writes + 1
  /\ tasks' = [g \in Handlers |-> IF g = h THEN Idle ELSE Stale(tasks[g])]
  /\ sound' = (sound /\ ~tasks[h].stale)
  /\ UNCHANGED saved

GiveId(t) == Room(t) /\ last' = [last EXCEPT ![t] = @ + 1]

\* Mutant of UniqueObject: the column is not UNIQUE.
AnyObjectName(t) == t.input.name \in Names

UniqueObject(t) == FindObject(t.input.name) \subseteq {t.id}
UniqueGroup(t) == FindGroup(t.input.name) \subseteq {t.id}
\* insert_members: the members go in as ids, found by their names once more.
MembersExist(t) == \A m \in t.input.members : FindObject(m) # {}
GroupRow(t) == [name |-> t.input.name, members |-> UNION {FindObject(m) : m \in t.input.members}]

WriteObject(h) ==
  LET t == tasks[h]
  IN \/ /\ Finishing(h, "add object") /\ UniqueObject(t)
        /\ GiveId("objects") /\ objects' = Put(objects, last'["objects"], t.input)
        /\ Written(h) /\ UNCHANGED <<groups, rules>>
     \/ /\ Finishing(h, "update object") /\ t.id \in DOMAIN objects /\ UniqueObject(t)
        /\ objects' = Put(objects, t.id, t.input)
        /\ Written(h) /\ UNCHANGED <<groups, rules, last>>
     \/ /\ Finishing(h, "delete object") /\ t.id \in DOMAIN objects /\ GroupsUsing(t.id) = {}
        /\ objects' = Without(objects, t.id)
        /\ Written(h) /\ UNCHANGED <<groups, rules, last>>

WriteGroup(h) ==
  LET t == tasks[h]
  IN \/ /\ Finishing(h, "add group") /\ UniqueGroup(t) /\ MembersExist(t)
        /\ GiveId("groups") /\ groups' = Put(groups, last'["groups"], GroupRow(t))
        /\ Written(h) /\ UNCHANGED <<objects, rules>>
     \/ /\ Finishing(h, "update group") /\ t.id \in DOMAIN groups /\ UniqueGroup(t) /\ MembersExist(t)
        /\ groups' = Put(groups, t.id, GroupRow(t))
        /\ Written(h) /\ UNCHANGED <<objects, rules, last>>
     \/ /\ Finishing(h, "delete group") /\ t.id \in DOMAIN groups
        /\ groups' = Without(groups, t.id)
        /\ Written(h) /\ UNCHANGED <<objects, rules, last>>

\* An update of a rule that is gone changes nothing and succeeds.
WriteRule(h) ==
  LET t == tasks[h]
  IN \/ /\ Finishing(h, "add rule")
        /\ GiveId("rules") /\ rules' = Put(rules, last'["rules"], t.input)
        /\ Written(h) /\ UNCHANGED <<objects, groups>>
     \/ /\ Finishing(h, "update rule") /\ t.id \in DOMAIN rules
        /\ rules' = Put(rules, t.id, t.input)
        /\ Written(h) /\ UNCHANGED <<objects, groups, last>>

\* The database refuses, or finds no row to change.
WriteNothing(h) ==
  LET t == tasks[h]
  IN /\ \/ Finishing(h, "add object") /\ ~UniqueObject(t)
        \/ Finishing(h, "update object") /\ (t.id \notin DOMAIN objects \/ ~UniqueObject(t))
        \/ Finishing(h, "delete object") /\ (t.id \notin DOMAIN objects \/ GroupsUsing(t.id) # {})
        \/ Finishing(h, "add group") /\ (~UniqueGroup(t) \/ ~MembersExist(t))
        \/ Finishing(h, "update group") /\ (t.id \notin DOMAIN groups \/ ~UniqueGroup(t) \/ ~MembersExist(t))
        \/ Finishing(h, "delete group") /\ t.id \notin DOMAIN groups
        \/ Finishing(h, "update rule") /\ t.id \notin DOMAIN rules
     /\ tasks' = [tasks EXCEPT ![h] = Idle]
     /\ UNCHANGED <<tables, saved, sound, writes>>

DeleteRule(n) ==
  /\ n \in DOMAIN rules
  /\ rules' = Without(rules, n)
  /\ UNCHANGED <<objects, groups, last, tasks, saved, sound, writes>>

-----------------------------------------------------------------------------
(* A commit saves the rules; a rollback writes them back and leaves the book alone. *)

Commit ==
  /\ saved' = [rules |-> rules, objects |-> objects, groups |-> groups]
  /\ UNCHANGED <<tables, tasks, sound, writes>>

Rollback ==
  /\ saved # None
  /\ rules' = saved.rules
  /\ tasks' = [h \in Handlers |-> Stale(tasks[h])]
  /\ sound' = (sound /\ saved.objects = objects /\ saved.groups = groups)
  /\ UNCHANGED <<objects, groups, last, saved, writes>>

BookNext ==
  \/ \E h \in Handlers :
       \/ RequestObject(h) \/ RequestGroup(h) \/ RequestRule(h) \/ Continue(h)
       \/ WriteObject(h) \/ WriteGroup(h) \/ WriteRule(h) \/ WriteNothing(h)
  \/ \E n \in DOMAIN rules : DeleteRule(n)
  \/ Commit \/ Rollback

BookSpec == BookInit /\ [][BookNext]_bookVars
-----------------------------------------------------------------------------
(* What the generator makes of a reference: load_address_sets, address_match *)

\* What a reference stands for: an object before a group.
Target(ref) ==
  IF FindObject(ref) # {} THEN [kind : {"object"}, id : FindObject(ref)]
  ELSE [kind : {"group"}, id : FindGroup(ref)]

\* The versions its set may have; none if there is no set.
SetFamilies(ref) ==
  IF ref \in Families THEN {ref}
  ELSE UNION {IF x.kind = "object" THEN {objects[x.id].family} ELSE GroupFamilies(x.id) \ {None} : x \in Target(ref)}

\* The rules that generate_chain does not skip.
Emitted ==
  {n \in DOMAIN rules :
     LET ends == {rules[n].src, rules[n].dst} \ {AnyAddress}
     IN /\ \A ref \in ends : SetFamilies(ref) # {}
        /\ Cardinality(UNION {SetFamilies(ref) : ref \in ends}) <= 1}

-----------------------------------------------------------------------------
(* Properties *)

\* "Objects and groups share one namespace" and all members of a group are of one IP
\* version (a set of two makes nft refuse the whole ruleset), as long as no handler wrote
\* on a query that was out of date.
OneBook ==
  sound => /\ SharedNamespace
           /\ \A n \in DOMAIN groups : Cardinality(GroupFamilies(n)) = 1

\* Then the generator leaves out no enabled rule: whatever was renamed, emptied, deleted or
\* changed since a rule was written, what it refers to is there and of one version.
RulesInForce == sound => Emitted = DOMAIN rules

\* And nothing that happens to the book makes a rule mean another object or group than
\* the one its author meant.
RulesKeepTarget ==
  [][sound' => \A i \in DOMAIN rules \intersect DOMAIN rules' : rules'[i] = rules[i] =>
       \A ref \in {rules[i].src, rules[i].dst} \intersect Names : Target(ref)' = Target(ref)]_bookVars
=============================================================================
