----------------------------- MODULE TableEdits ------------------------------
(***************************************************************************)
(* The handlers that edit one of the nine tables of TableChecks, side by   *)
(* side: each reads the configuration and the rows, one query after        *)
(* another, checks what it read, and writes.  No lock is held from the     *)
(* reads to the write.  A commit takes a snapshot in two reads, a rollback *)
(* puts the last one back.                                                 *)
(*                                                                         *)
(* The ghost `stale' is set in a handler when somebody writes between its  *)
(* first read and its write; `doubt' has the ids whose last writer was     *)
(* stale, and 0 if that of the configuration was.                          *)
(***************************************************************************)
EXTENDS TableChecks

CONSTANTS
  Handlers,    \* concurrent requests
  NoSnapshot,  \* nothing was committed
  MaxId,       \* bound: rows ever added
  MaxWrites    \* bound, per table: rows and configurations written

ASSUME EditsAssumption == MaxId \in Nat /\ MaxWrites \in [Tables -> Nat]

VARIABLES
  table,          \* the table that is edited
  config, rows,   \* its configuration, its rows by id
  next,           \* the next id: AUTOINCREMENT never gives one out twice
  tasks,          \* the handlers
  commit,         \* the commit that is taking its snapshot
  saved,          \* the snapshot
  doubt, writes

db == <<config, rows, next>>
vars == <<table, db, tasks, commit, saved, doubt, writes>>

Ids == 1..MaxId
Idle == [at |-> "idle", op |-> "add", id |-> 0, value |-> NoConfig, seen |-> NoConfig, stale |-> FALSE]
NotCommitting == [at |-> "idle", seen |-> NoConfig, stale |-> FALSE]

\* A row of another id is in the way: for the service, and for the database.
Collides(v, id) == \E n \in DOMAIN rows \ {id} : Collide(table, v, rows[n])
Violates(v, id) == \E n \in DOMAIN rows \ {id} : Duplicate(table, v, rows[n])

\* A peer without networks is given the first free address, or keeps its own.
Inputs ==
  Values(table) \union
    (IF table = "peer" THEN [name : Names, key : Keys, nets : {{}}] ELSE {})

TaskOK(t) ==
  /\ t.at \in {"idle", "rows", "write"} /\ t.op \in {"add", "update", "config"}
  /\ t.id \in 0..MaxId /\ t.stale \in BOOLEAN
  /\ t.seen \in Configs(table) \union {NoConfig}
  /\ t.at = "write" => t.value \in IF t.op = "config" THEN Configs(table) ELSE Values(table)
RowsOK(r) == DOMAIN r \subseteq Ids /\ \A n \in DOMAIN r : r[n] \in Values(table)

TypeOK ==
  /\ table \in Tables /\ config \in Configs(table) /\ RowsOK(rows)
  /\ next \in 1..(MaxId + 1) /\ \A n \in DOMAIN rows : n < next
  /\ \A h \in Handlers : TaskOK(tasks[h])
  /\ commit.at \in {"idle", "rows"} /\ commit.seen \in Configs(table) \union {NoConfig}
  /\ saved # NoSnapshot => saved.config \in Configs(table) /\ RowsOK(saved.rows) /\ saved.doubt \subseteq 0..MaxId
  /\ doubt \subseteq 0..MaxId /\ writes \in 0..MaxWrites[table]

Init ==
  /\ table \in Tables
  /\ config \in {c \in Configs(table) : table = "record" => ~c.enabled}
  /\ rows = <<>> /\ next = 1
  /\ tasks = [h \in Handlers |-> Idle]
  /\ commit = NotCommitting /\ saved = NoSnapshot
  /\ doubt = {} /\ writes = 0

-----------------------------------------------------------------------------
(* A handler. *)

ReadsConfig(op) == table = "peer" \/ (table = "reservation" /\ op # "config")

\* The first query of the handlers that need the configuration.
ReadConfig(h) ==
  /\ tasks[h].at = "idle" /\ writes < MaxWrites[table]
  /\ table \in {"reservation", "peer"}
  /\ tasks' = [tasks EXCEPT ![h].at = "rows", ![h].seen = config]
  /\ UNCHANGED <<table, db, commit, saved, doubt, writes>>

\* prepare_peer: the networks of an input that names none.
Filled(t) ==
  IF table # "peer" \/ t.op = "config" \/ t.value.nets # {} THEN t.value
  ELSE IF t.op = "update" THEN [t.value EXCEPT !.nets = rows[t.id].nets]
  ELSE LET free == Free(t.seen, rows)
       IN [t.value EXCEPT !.nets = {CHOOSE a \in free : \A b \in free : a <= b}]

\* Mutant of Accepted: an update is not checked against the other rows.
AcceptedUpdate(t) ==
  IF t.op = "config"
  THEN (\A n \in DOMAIN rows : Fits(table, rows[n], t.value)) /\ Complete(table, t.value, rows)
  ELSE /\ table = "peer" /\ t.op = "update" => t.id \in DOMAIN rows
       /\ table = "peer" /\ t.op = "add" /\ t.value.nets = {} => Free(t.seen, rows) # {}
       /\ Fits(table, Filled(t), t.seen)
       /\ t.op = "add" => ~Collides(Filled(t), t.id)

\* Mutant of Accepted: an update is not checked against the configuration.
AcceptedAnyUpdate(t) ==
  IF t.op = "config"
  THEN (\A n \in DOMAIN rows : Fits(table, rows[n], t.value)) /\ Complete(table, t.value, rows)
  ELSE /\ table = "peer" /\ t.op = "update" => t.id \in DOMAIN rows
       /\ table = "peer" /\ t.op = "add" /\ t.value.nets = {} => Free(t.seen, rows) # {}
       /\ t.op = "add" => Fits(table, Filled(t), t.seen)
       /\ ~Collides(Filled(t), t.id)

\* What the handler checks of what it has read.
Accepted(t) ==
  IF t.op = "config"
  THEN (\A n \in DOMAIN rows : Fits(table, rows[n], t.value)) /\ Complete(table, t.value, rows)
  ELSE /\ table = "peer" /\ t.op = "update" => t.id \in DOMAIN rows
       /\ table = "peer" /\ t.op = "add" /\ t.value.nets = {} => Free(t.seen, rows) # {}
       /\ Fits(table, Filled(t), t.seen)
       /\ ~Collides(Filled(t), t.id)

\* The query of the rows.  What the request is about is chosen here, where it first matters.
ReadRows(h, op, id, value) ==
  LET t == [tasks[h] EXCEPT !.at = "write", !.op = op, !.id = id, !.value = value]
  IN /\ tasks[h].at = IF ReadsConfig(op) THEN "rows" ELSE "idle"
     /\ writes < MaxWrites[table]
     /\ tasks' = [tasks EXCEPT ![h] = IF Accepted(t) THEN [t EXCEPT !.value = Filled(t), !.seen = NoConfig] ELSE Idle]
     /\ UNCHANGED <<table, db, commit, saved, doubt, writes>>

Add(h) == next \in Ids /\ \E v \in Inputs : ReadRows(h, "add", 0, v)
Update(h) == \E v \in Inputs, n \in 1..(next - 1) : ReadRows(h, "update", n, v)
SetConfig(h) == \E c \in Configs(table) \ {NoConfig} : ReadRows(h, "config", 0, c)

\* Everybody who has read and not yet written is stale from now on.
Stale(t) == IF t.at # "idle" THEN [t EXCEPT !.stale = TRUE] ELSE t
Written(h) ==
  /\ tasks' = [g \in Handlers |-> IF g = h THEN Idle ELSE Stale(tasks[g])]
  /\ commit' = IF commit.at = "idle" THEN commit ELSE [commit EXCEPT !.stale = TRUE]
  /\ writes < MaxWrites[table] /\ writes' = writes + 1

\* The database answers with an error: a UNIQUE column, or no row of that id.
Fails(t) ==
  \/ t.op # "config" /\ Violates(t.value, t.id)
  \/ t.op = "update" /\ t.id \notin DOMAIN rows

WriteFails(h) ==
  /\ tasks[h].at = "write" /\ Fails(tasks[h])
  /\ tasks' = [tasks EXCEPT ![h] = Idle]
  /\ UNCHANGED <<table, db, commit, saved, doubt, writes>>

\* Mutant of Write: the id of an added row is given out again.
WriteSameId(h) ==
  LET t == tasks[h]
      id == IF t.op = "add" THEN next ELSE t.id
  IN /\ t.at = "write" /\ ~Fails(t)
     /\ IF t.op = "config" THEN config' = t.value ELSE UNCHANGED config
     /\ t.op = "add" => next \in Ids
     /\ rows' = IF t.op = "config" THEN rows
                ELSE [n \in DOMAIN rows \union {id} |-> IF n = id THEN t.value ELSE rows[n]]
     /\ UNCHANGED next
     /\ doubt' = IF t.stale THEN doubt \union {id} ELSE doubt \ {id}
     /\ Written(h)
     /\ UNCHANGED <<table, saved>>

Write(h) ==
  LET t == tasks[h]
      id == IF t.op = "add" THEN next ELSE t.id
  IN /\ t.at = "write" /\ ~Fails(t)
     /\ IF t.op = "config" THEN config' = t.value /\ UNCHANGED <<rows, next>>
        ELSE /\ t.op = "add" => next \in Ids
             /\ rows' = [n \in DOMAIN rows \union {id} |-> IF n = id THEN t.value ELSE rows[n]]
             /\ next' = IF t.op = "add" THEN next + 1 ELSE next
             /\ UNCHANGED config
     /\ doubt' = IF t.stale THEN doubt \union {id} ELSE doubt \ {id}
     /\ Written(h)
     /\ UNCHANGED <<table, saved>>

\* Of a row that does not exist the handler says so.
Delete(id) ==
  /\ rows' = [n \in DOMAIN rows \ {id} |-> rows[n]]
  /\ doubt' = doubt \ {id}
  /\ UNCHANGED <<table, config, next, tasks, commit, saved, writes>>

-----------------------------------------------------------------------------
(* A commit and a rollback of the table; commit_lock lets one run at a time. *)

BeginCommit ==
  /\ table \in Committed
  /\ commit.at = "idle" /\ saved = NoSnapshot
  /\ commit' = [at |-> "rows", seen |-> config, stale |-> FALSE]
  /\ UNCHANGED <<table, db, tasks, saved, doubt, writes>>

\* DNS refuses a configuration that is not complete.
Commit ==
  /\ commit.at = "rows"
  /\ saved' = IF Complete(table, commit.seen, rows)
              THEN [config |-> commit.seen, rows |-> rows,
                    doubt |-> IF commit.stale THEN {0} \union DOMAIN rows ELSE doubt]
              ELSE saved
  /\ commit' = NotCommitting
  /\ UNCHANGED <<table, db, tasks, doubt, writes>>

\* Mutant of Rollback: the configuration stays.
RollbackRows ==
  /\ commit.at = "idle" /\ saved # NoSnapshot
  /\ rows' = saved.rows /\ doubt' = saved.doubt
  /\ tasks' = [g \in Handlers |-> Stale(tasks[g])]
  /\ UNCHANGED <<table, config, next, commit, saved, writes>>

\* replace_all, in one transaction, with the old ids.
Rollback ==
  /\ commit.at = "idle" /\ saved # NoSnapshot
  /\ config' = saved.config /\ rows' = saved.rows /\ doubt' = saved.doubt
  /\ tasks' = [g \in Handlers |-> Stale(tasks[g])]
  /\ UNCHANGED <<table, next, commit, saved, writes>>

Next ==
  \/ \E h \in Handlers :
       \/ ReadConfig(h) \/ Add(h) \/ Update(h) \/ SetConfig(h)
       \/ Write(h) \/ WriteFails(h)
  \/ \E id \in Ids : Delete(id)
  \/ BeginCommit \/ Commit \/ Rollback

Spec == Init /\ [][Next]_vars
-----------------------------------------------------------------------------
(* Properties *)

\* "so re-enabling one later can never create a hidden collision": two rows of a table
\* collide only if a handler wrote one of them on a check that was out of date by then, and
\* even then not in a UNIQUE column, a row that a rollback brings back included.
NoHiddenCollision ==
  \A n, m \in DOMAIN rows :
    n # m /\ Collide(table, rows[n], rows[m]) =>
      {n, m} \intersect doubt # {} /\ ~Duplicate(table, rows[n], rows[m])

\* Whatever edits of rows and of the configuration, rollbacks and deletions come between,
\* reservations stay in the subnet and peers off the server's address, unless a check was
\* out of date.
RowsFitConfig ==
  0 \notin doubt => \A n \in DOMAIN rows \ doubt : Fits(table, rows[n], config)

\* A route that the generator leaves out although the service has accepted it: another one
\* is served that goes to the same network, written otherwise.
WrittenTwice(n, served) ==
  table = "route" /\ \E m \in served : SameRoute(rows[m], rows[n]) /\ rows[m].spelling # rows[n].spelling

\* The generators never hand out what collides, out of date or not, and leave out no row
\* that a service accepted when every check was up to date, save the second of two routes
\* that differ in how they write one network.
ServedIsAccepted ==
  LET served == Served(table, config, rows)
  IN /\ table = "peer" =>
          \A n, m \in served : /\ config.server \notin rows[n].nets
                               /\ n # m => rows[n].key # rows[m].key /\ rows[n].nets \intersect rows[m].nets = {}
     /\ table = "route" => \A n, m \in served : n # m => ~SameRoute(rows[n], rows[m])
     /\ doubt = {} => \A n \in DOMAIN rows \ served : WrittenTwice(n, served)

\* Not so: with up-to-date checks every accepted row is handed out.  check_duplicate lets two
\* spellings of one network pass, and the generator drops one of them with a warning.
AllAcceptedAreServed == doubt = {} => Served(table, config, rows) = DOMAIN rows
=============================================================================
