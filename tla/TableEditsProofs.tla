--------------------------- MODULE TableEditsProofs ---------------------------
(***************************************************************************)
(* Proofs about TableEdits, for any values, handlers and bounds: what gets *)
(* into a table fits what is there already, unless a check was out of date *)
(* by the time its row was written.                                        *)
(***************************************************************************)
EXTENDS TableEdits, NaturalsInduction, WellFoundedInduction, TLAPS

\* The records that the variables hold.
AllValues == Inputs \union Configs(table) \union {NoConfig}
Seen == Configs(table) \union {NoConfig}
Tasks == [at : {"idle", "rows", "write"}, op : {"add", "update", "config"}, id : 0..MaxId,
          value : AllValues, seen : Seen, stale : BOOLEAN]
Commits == [at : {"idle", "rows"}, seen : Seen, stale : BOOLEAN]
RecordInv == tasks \in [Handlers -> Tasks] /\ commit \in Commits

\* Rows that collide are in doubt, but not in a UNIQUE column; rows that are not in doubt fit
\* a configuration that is not.
Separate(r, d) ==
  \A n, m \in DOMAIN r :
    n # m /\ Collide(table, r[n], r[m]) => {n, m} \intersect d # {} /\ ~Duplicate(table, r[n], r[m])
Fitting(c, r, d) == 0 \notin d => \A n \in DOMAIN r \ d : Fits(table, r[n], c)

\* What a handler that is not stale has checked is still so.
Checked(t) ==
  /\ t.op = "config" => \A n \in DOMAIN rows : Fits(table, rows[n], t.value)
  /\ t.op # "config" => Fits(table, t.value, config) /\ ~Collides(t.value, t.id)
TaskInv ==
  \A h \in Handlers :
    LET t == tasks[h]
    IN /\ t.at = "idle" => t = Idle
       /\ t.at = "rows" /\ ~t.stale => t.seen = config
       /\ t.at = "write" => t.value \in IF t.op = "config" THEN Configs(table) ELSE Values(table)
       /\ t.at = "write" /\ t.op # "update" => t.id = 0
       /\ t.at = "write" /\ ~t.stale => Checked(t)
CommitInv ==
  commit.at = "rows" => commit.seen \in Configs(table) /\ (~commit.stale => commit.seen = config)

SavedInv ==
  saved # NoSnapshot =>
    /\ saved.config \in Configs(table) /\ RowsOK(saved.rows) /\ saved.doubt \subseteq 0..MaxId
    /\ \A n \in DOMAIN saved.rows : n < next
    /\ Separate(saved.rows, saved.doubt) /\ Fitting(saved.config, saved.rows, saved.doubt)

IInv ==
  /\ TypeOK /\ RecordInv /\ TaskInv /\ CommitInv /\ SavedInv
  /\ Separate(rows, doubt) /\ Fitting(config, rows, doubt)

LEMMA Bounds ==
  /\ MaxId \in Nat /\ MaxWrites \in [Tables -> Nat] /\ Hosts \subseteq Nat
  /\ Networks \subseteq SUBSET Hosts /\ {} \notin Networks /\ \A a \in Hosts : {a} \in Networks
BY EditsAssumption, ChecksAssumption

\* Two rows stand in each other's way, whichever is asked about.
LEMMA Symmetric ==
  ASSUME NEW v, NEW w
  PROVE  /\ Collide(table, v, w) => Collide(table, w, v)
         /\ Duplicate(table, v, w) => Duplicate(table, w, v)
<1>1. Collide(table, v, w) => Collide(table, w, v)
  BY DEF Collide, ForwardsOverlap, ProtocolsOverlap, MappingsConflict, ReservationsClash, PeersClash, NetworksOverlap
<1>2. Duplicate(table, v, w) => Duplicate(table, w, v)
  BY DEF Duplicate
<1>3. QED
  BY <1>1, <1>2

\* Only reservations and peers have a configuration to fit.
LEMMA FitsAnyway ==
  ASSUME table \notin {"reservation", "peer"}, NEW v, NEW c
  PROVE  Fits(table, v, c)
BY DEF Fits

\* next_free_address finds one if there is one.
LEMMA SmallestHost ==
  ASSUME NEW S \in SUBSET Hosts, S # {}
  PROVE  (CHOOSE a \in S : \A b \in S : a <= b) \in Hosts
<1>1. \E a \in S : \A b \in S : ~(<<b, a>> \in OpToRel(<, Nat))
  BY Bounds, NatLessThanWellFounded, WFMin
<1>2. ASSUME NEW a \in Nat, NEW b \in Nat, b < a PROVE <<b, a>> \in OpToRel(<, Nat)
  BY <1>2 DEF OpToRel
<1>3. PICK a \in S : \A b \in S : ~(<<b, a>> \in OpToRel(<, Nat))
  BY <1>1
<1>4. ASSUME NEW b \in S PROVE a <= b
  <2>1. a \in Nat /\ b \in Nat
    BY Bounds
  <2>2. ~(b < a)
    BY <1>2, <1>3, <2>1
  <2>3. QED
    BY <2>1, <2>2
<1>5. QED
  BY <1>4

\* prepare_peer gives a peer networks, and leaves everything else as it is.
LEMMA FilledType ==
  ASSUME TypeOK, NEW t, t.op \in {"add", "update"}, t.value \in Inputs, Accepted(t)
  PROVE  Filled(t) \in Values(table)
<1>1. CASE table # "peer" \/ t.value.nets # {}
  BY <1>1, Bounds DEF Filled, Inputs, Values, Peers
<1>2. CASE table = "peer" /\ t.value.nets = {} /\ t.op = "update"
  <2>1. rows[t.id] \in Peers
    BY <1>2 DEF Accepted, TypeOK, RowsOK, Values
  <2>2. t.value \in [name : Names, key : Keys, nets : {{}} \union Networks]
    BY <1>2 DEF Inputs, Values, Peers
  <2>3. QED
    BY <1>2, <2>1, <2>2 DEF Filled, Values, Peers
<1>3. CASE table = "peer" /\ t.value.nets = {} /\ t.op = "add"
  <2> DEFINE a == CHOOSE a \in Free(t.seen, rows) : \A b \in Free(t.seen, rows) : a <= b
  <2>1. Free(t.seen, rows) \subseteq Hosts /\ Free(t.seen, rows) # {}
    BY <1>3 DEF Accepted, Free
  <2>2. {a} \in Networks
    <3>1. a \in Hosts
      BY <2>1, SmallestHost
    <3>2. QED
      BY <3>1, Bounds
  <2>3. t.value \in [name : Names, key : Keys, nets : {{}} \union Networks]
    BY <1>3 DEF Inputs, Values, Peers
  <2>4. QED
    BY <1>3, <2>2, <2>3 DEF Filled, Values, Peers
<1>4. QED
  BY <1>1, <1>2, <1>3

\* A row that was found to fit, or one that is in doubt and breaks no UNIQUE column.
LEMMA Placed ==
  ASSUME Separate(rows, doubt), Fitting(config, rows, doubt), NEW id, NEW v, NEW r, NEW d, id # 0,
         r = [n \in DOMAIN rows \union {id} |-> IF n = id THEN v ELSE rows[n]],
         \/ d = doubt \ {id} /\ ~Collides(v, id) /\ Fits(table, v, config)
         \/ d = doubt \union {id} /\ ~Violates(v, id)
  PROVE  Separate(r, d) /\ Fitting(config, r, d)
<1>1. DOMAIN r = DOMAIN rows \union {id} /\ r[id] = v /\ \A n \in DOMAIN rows \ {id} : r[n] = rows[n]
  OBVIOUS
<1>2. Separate(r, d)
  <2> SUFFICES ASSUME NEW n \in DOMAIN r, NEW m \in DOMAIN r, n # m, Collide(table, r[n], r[m])
               PROVE  {n, m} \intersect d # {} /\ ~Duplicate(table, r[n], r[m])
    BY DEF Separate
  <2>1. CASE n # id /\ m # id
    BY <1>1, <2>1 DEF Separate
  <2>2. CASE n = id
    BY <1>1, <2>2 DEF Collides, Violates
  <2>3. CASE m = id
    BY <1>1, <2>3, Symmetric DEF Collides, Violates
  <2>4. QED
    BY <2>1, <2>2, <2>3
<1>3. Fitting(config, r, d)
  BY <1>1 DEF Fitting
<1>4. QED
  BY <1>2, <1>3

\* What was found stays so when a row goes.
LEMMA Removed ==
  ASSUME Separate(rows, doubt), Fitting(config, rows, doubt), NEW id, id # 0,
         NEW r, r = [n \in DOMAIN rows \ {id} |-> rows[n]]
  PROVE  Separate(r, doubt \ {id}) /\ Fitting(config, r, doubt \ {id})
<1>1. DOMAIN r = DOMAIN rows \ {id} /\ \A n \in DOMAIN r : r[n] = rows[n]
  OBVIOUS
<1>2. Separate(r, doubt \ {id})
  BY <1>1 DEF Separate
<1>3. Fitting(config, r, doubt \ {id})
  BY <1>1 DEF Fitting
<1>4. QED
  BY <1>2, <1>3

\* The parts of TypeOK that say something of the tables.
TableTypes ==
  /\ table \in Tables /\ config \in Configs(table) /\ RowsOK(rows)
  /\ next \in 1..(MaxId + 1) /\ \A n \in DOMAIN rows : n < next
  /\ doubt \subseteq 0..MaxId /\ writes \in 0..MaxWrites[table]

LEMMA TypeParts ==
  ASSUME TableTypes, RecordInv, TaskInv, SavedInv
  PROVE  TypeOK
<1>1. \A h \in Handlers : TaskOK(tasks[h])
  BY DEF RecordInv, TaskInv, Tasks, Seen, TaskOK
<1>2. commit.at \in {"idle", "rows"} /\ commit.seen \in Configs(table) \union {NoConfig}
  BY DEF RecordInv, Commits, Seen
<1>3. QED
  BY <1>1, <1>2 DEF TypeOK, TableTypes, SavedInv

LEMMA TypePartsNext ==
  ASSUME TableTypes', RecordInv', TaskInv', SavedInv'
  PROVE  TypeOK'
<1>1. \A h \in Handlers : TaskOK(tasks[h])'
  BY DEF RecordInv, TaskInv, Tasks, Seen, TaskOK
<1>2. commit'.at \in {"idle", "rows"} /\ commit'.seen \in Configs(table') \union {NoConfig}
  BY DEF RecordInv, Commits, Seen
<1>3. QED
  BY <1>1, <1>2 DEF TypeOK, TableTypes, SavedInv

LEMMA TableTyped == IInv => TableTypes
BY DEF IInv, TypeOK, TableTypes

LEMMA IdleTyped == Idle \in Tasks /\ Idle.at = "idle" /\ NotCommitting \in Commits /\ NotCommitting.at = "idle"
BY Bounds DEF Idle, NotCommitting, Tasks, Commits, AllValues, Seen

\* What TaskInv asks of one handler.
TaskOf(t) ==
  /\ t.at = "idle" => t = Idle
  /\ t.at = "rows" /\ ~t.stale => t.seen = config
  /\ t.at = "write" => t.value \in IF t.op = "config" THEN Configs(table) ELSE Values(table)
  /\ t.at = "write" /\ t.op # "update" => t.id = 0
  /\ t.at = "write" /\ ~t.stale => Checked(t)

LEMMA IdleTask == TaskOf(Idle)
BY IdleTyped DEF TaskOf

\* Steps of one handler that leave the tables alone.
LEMMA TaskMoves ==
  ASSUME IInv, NEW h \in Handlers, NEW t \in Tasks, TaskOf(t), tasks' = [tasks EXCEPT ![h] = t],
         UNCHANGED <<table, db, commit, saved, doubt, writes>>
  PROVE  IInv'
<1>1. TableTypes' /\ SavedInv' /\ CommitInv' /\ Separate(rows, doubt)' /\ Fitting(config, rows, doubt)'
  BY TableTyped DEF IInv, TableTypes, SavedInv, CommitInv, Separate, Fitting, db, RowsOK
<1>2. tasks' \in [Handlers -> Tasks] /\ \A g \in Handlers : tasks'[g] = IF g = h THEN t ELSE tasks[g]
  BY DEF IInv, RecordInv
<1>3. RecordInv'
  BY <1>2 DEF IInv, RecordInv, Tasks, Commits, AllValues, Seen, Inputs
<1>4. ASSUME NEW u PROVE Checked(u)' <=> Checked(u)
  BY DEF Checked, Collides, db
<1>5. TaskInv'
  BY <1>2, <1>4, IdleTyped DEF IInv, TaskInv, TaskOf, db
<1>6. QED
  BY <1>1, <1>3, <1>5, TypePartsNext DEF IInv

\* A step that changes tables and makes every handler that goes on stale.
LEMMA AllStale ==
  ASSUME IInv, NEW H \in SUBSET Handlers, UNCHANGED table,
         tasks' = [g \in Handlers |-> IF g \in H THEN Idle ELSE Stale(tasks[g])]
  PROVE  tasks' \in [Handlers -> Tasks] /\ TaskInv'
<1>1. ASSUME NEW g \in Handlers
      PROVE  /\ tasks'[g] \in Tasks
             /\ tasks'[g].at = "idle" => tasks'[g] = Idle
             /\ tasks'[g].at # "idle" => /\ tasks'[g].stale
                                         /\ tasks[g].at = tasks'[g].at /\ tasks[g].op = tasks'[g].op
                                         /\ tasks[g].value = tasks'[g].value /\ tasks[g].id = tasks'[g].id
  <2>1. tasks[g] \in Tasks /\ (tasks[g].at = "idle" => tasks[g] = Idle)
    BY DEF IInv, RecordInv, TaskInv
  <2>2. CASE g \in H
    BY <2>2, IdleTyped
  <2>3. CASE g \notin H /\ tasks[g].at = "idle"
    BY <2>1, <2>3, IdleTyped DEF Stale
  <2>4. CASE g \notin H /\ tasks[g].at # "idle"
    BY <2>1, <2>4 DEF Stale, Tasks
  <2>5. QED
    BY <2>2, <2>3, <2>4
<1>2. TaskInv'
  BY <1>1 DEF IInv, TaskInv
<1>3. QED
  BY <1>1, <1>2

\* The snapshot is as good as it was, whatever happens to the tables.
LEMMA SavedKept ==
  ASSUME IInv, UNCHANGED <<table, saved>>, next' \in Nat, next <= next'
  PROVE  SavedInv'
<1> SUFFICES ASSUME saved # NoSnapshot
             PROVE  SavedInv'
  BY DEF SavedInv
<1>1. /\ saved.config \in Configs(table) /\ RowsOK(saved.rows) /\ saved.doubt \subseteq 0..MaxId
      /\ \A n \in DOMAIN saved.rows : n < next
      /\ Separate(saved.rows, saved.doubt) /\ Fitting(saved.config, saved.rows, saved.doubt)
  BY DEF IInv, SavedInv
<1>2. \A n \in DOMAIN saved.rows : n < next'
  <2>1. DOMAIN saved.rows \subseteq Nat /\ next \in Nat
    BY <1>1, Bounds, TableTyped DEF RowsOK, Ids, TableTypes
  <2>2. QED
    BY <1>1, <2>1
<1>3. RowsOK(saved.rows)'
  BY <1>1 DEF RowsOK
<1>4. Separate(saved.rows, saved.doubt)' /\ Fitting(saved.config, saved.rows, saved.doubt)'
  BY <1>1 DEF Separate, Fitting
<1>5. QED
  BY <1>1, <1>2, <1>3, <1>4 DEF SavedInv

\* One lemma for each action: it keeps the inductive invariant.
LEMMA ReadConfigKeeps ==
  ASSUME IInv, NEW h \in Handlers, ReadConfig(h)
  PROVE  IInv'
<1> DEFINE t == [tasks[h] EXCEPT !.at = "rows", !.seen = config]
<1>1. tasks[h] \in Tasks /\ config \in Seen
  BY TableTyped DEF IInv, RecordInv, TableTypes, Seen
<1>2. t \in Tasks /\ t.at = "rows" /\ t.seen = config
  BY <1>1 DEF Tasks
<1>3. TaskOf(t)
  BY <1>2 DEF TaskOf
<1>4. tasks' = [tasks EXCEPT ![h] = t]
  BY <1>1 DEF ReadConfig
<1>5. QED
  BY <1>2, <1>3, <1>4, TaskMoves DEF ReadConfig

LEMMA ReadRowsKeeps ==
  ASSUME IInv, NEW h \in Handlers, NEW op \in {"add", "update", "config"}, NEW id \in 0..MaxId, NEW value,
         op = "config" => value \in Configs(table), op # "config" => value \in Inputs, op # "update" => id = 0,
         ReadRows(h, op, id, value)
  PROVE  IInv'
<1> DEFINE t == [tasks[h] EXCEPT !.at = "write", !.op = op, !.id = id, !.value = value]
           u == [t EXCEPT !.value = Filled(t), !.seen = NoConfig]
<1>1. tasks[h] \in Tasks /\ value \in AllValues /\ TypeOK
  BY DEF IInv, RecordInv, AllValues
<1>2. /\ t \in Tasks /\ t.at = "write" /\ t.op = op /\ t.id = id /\ t.value = value
      /\ t.seen = tasks[h].seen /\ t.stale = tasks[h].stale
  BY <1>1 DEF Tasks
<1> HIDE DEF t
<1>3. CASE ~Accepted(t)
  BY <1>3, IdleTyped, IdleTask, TaskMoves DEF ReadRows, t
<1>4. CASE Accepted(t)
  <2>1. Filled(t) \in IF op = "config" THEN Configs(table) ELSE Values(table)
    <3>1. CASE op = "config"
      BY <1>2, <3>1 DEF Filled
    <3>2. CASE op # "config"
      BY <1>1, <1>2, <1>4, <3>2, FilledType
    <3>3. QED
      BY <3>1, <3>2
  <2>2. Filled(t) \in AllValues
    BY <2>1 DEF AllValues, Inputs
  <2>3. /\ u \in Tasks /\ u.at = "write" /\ u.op = op /\ u.id = id /\ u.value = Filled(t) /\ u.stale = tasks[h].stale
    BY <1>2, <2>2 DEF Tasks, Seen
  <2> HIDE DEF u
  <2>4. ASSUME ~u.stale, op # "config" PROVE Fits(table, Filled(t), config)
    <3>1. CASE tasks[h].at = "rows"
      <4>1. tasks[h].seen = config
        BY <2>3, <2>4, <3>1 DEF IInv, TaskInv
      <4>2. QED
        BY <1>2, <1>4, <2>4, <4>1 DEF Accepted
    <3>2. CASE tasks[h].at # "rows"
      <4>1. table \notin {"reservation", "peer"}
        BY <2>4, <3>2 DEF ReadRows, ReadsConfig
      <4>2. QED
        BY <4>1, FitsAnyway
    <3>3. QED
      BY <3>1, <3>2
  <2>5. ~u.stale => Checked(u)
    <3>1. op = "config" => Filled(t) = value
      BY <1>2 DEF Filled
    <3>2. QED
      BY <1>2, <1>4, <2>3, <2>4, <3>1 DEF Checked, Accepted
  <2>6. TaskOf(u)
    BY <2>1, <2>3, <2>5 DEF TaskOf
  <2>7. tasks' = [tasks EXCEPT ![h] = u]
    BY <1>4 DEF ReadRows, t, u
  <2>8. QED
    BY <2>3, <2>6, <2>7, TaskMoves DEF ReadRows
<1>5. QED
  BY <1>3, <1>4

LEMMA WriteFailsKeeps ==
  ASSUME IInv, NEW h \in Handlers, WriteFails(h)
  PROVE  IInv'
BY IdleTyped, IdleTask, TaskMoves DEF WriteFails

\* The row, or the configuration, that was checked goes in.
LEMMA WriteKeeps ==
  ASSUME IInv, NEW h \in Handlers, Write(h)
  PROVE  IInv'
<1>1. PICK t, id :
        /\ t \in Tasks /\ t = tasks[h] /\ t.at = "write" /\ ~Fails(t)
        /\ id = IF t.op = "add" THEN next ELSE t.id
  BY DEF IInv, RecordInv, Write
<1>2. /\ t.value \in IF t.op = "config" THEN Configs(table) ELSE Values(table)
      /\ t.op # "update" => t.id = 0 /\ (~t.stale => Checked(t))
  BY <1>1 DEF IInv, TaskInv
<1>3. doubt' = IF t.stale THEN doubt \union {id} ELSE doubt \ {id}
  BY <1>1 DEF Write
<1>4. TableTypes
  BY TableTyped
<1>5. ~t.stale => Checked(t)
  BY <1>1 DEF IInv, TaskInv
<1>6. TableTypes' /\ Separate(rows, doubt)' /\ Fitting(config, rows, doubt)' /\ next <= next' /\ next' \in Nat
  <2>0. UNCHANGED table /\ writes' \in 0..MaxWrites[table]
    BY <1>4, Bounds DEF Write, Written, TableTypes
  <2>1. CASE t.op = "config"
    <3>1. config' = t.value /\ UNCHANGED <<rows, next>> /\ id = 0
      BY <1>1, <1>2, <2>1 DEF Write
    <3>2. 0 \notin DOMAIN rows
      BY <1>4, Bounds DEF TableTypes, RowsOK, Ids
    <3>3. Separate(rows, doubt)'
      BY <1>3, <2>0, <3>1, <3>2 DEF IInv, Separate
    <3>4. Fitting(config, rows, doubt)'
      BY <1>3, <1>5, <2>0, <2>1, <3>1, <3>2 DEF Fitting, Checked
    <3>5. TableTypes'
      BY <1>2, <1>3, <1>4, <2>0, <2>1, <3>1, Bounds DEF TableTypes, RowsOK
    <3>6. QED
      BY <1>4, <3>1, <3>3, <3>4, <3>5, Bounds DEF TableTypes
  <2>2. CASE t.op # "config"
    <3>1. /\ rows' = [n \in DOMAIN rows \union {id} |-> IF n = id THEN t.value ELSE rows[n]]
          /\ next' = IF t.op = "add" THEN next + 1 ELSE next
          /\ t.op = "add" => next \in Ids
          /\ UNCHANGED config
      BY <1>1, <2>2 DEF Write
    <3>2. id \in Ids /\ (t.op = "update" => id \in DOMAIN rows)
      BY <1>1, <1>4, <2>2, <3>1 DEF Fails, TableTypes, RowsOK, Tasks
    <3>3. Collides(t.value, id) => Collides(t.value, t.id)
      BY <1>1, <1>2, <1>4, <2>2, Bounds DEF Collides, TableTypes, RowsOK, Ids
    <3>4. ~Violates(t.value, id)
      BY <1>1, <1>2, <1>4, <2>2, Bounds DEF Fails, Violates, TableTypes, RowsOK, Ids, Tasks
    <3>5. Separate(rows', doubt') /\ Fitting(config, rows', doubt')
      <4>1. id # 0
        BY <3>2, Bounds DEF Ids
      <4>2. ~t.stale => ~Collides(t.value, id) /\ Fits(table, t.value, config)
        BY <1>5, <2>2, <3>3 DEF Checked
      <4>3. QED
        BY <1>3, <3>1, <3>4, <4>1, <4>2, Placed DEF IInv
    <3>6. RowsOK(rows')
      BY <1>2, <1>4, <2>2, <3>1, <3>2 DEF TableTypes, RowsOK
    <3>7. next' \in 1..(MaxId + 1) /\ (\A n \in DOMAIN rows' : n < next') /\ next <= next'
      BY <1>1, <1>4, <2>2, <3>1, <3>2, Bounds DEF TableTypes, RowsOK, Ids, Tasks
    <3>8. doubt' \subseteq 0..MaxId
      BY <1>3, <1>4, <3>2, Bounds DEF TableTypes, Ids
    <3>9. TableTypes'
      BY <1>4, <2>0, <3>1, <3>6, <3>7, <3>8 DEF TableTypes, RowsOK
    <3>10. Separate(rows, doubt)'
      BY <2>0, <3>5 DEF Separate
    <3>11. Fitting(config, rows, doubt)'
      BY <2>0, <3>1, <3>5 DEF Fitting
    <3>12. QED
      BY <3>7, <3>9, <3>10, <3>11, Bounds
  <2>3. QED
    BY <2>1, <2>2
<1>7. tasks' \in [Handlers -> Tasks] /\ TaskInv' /\ UNCHANGED <<table, saved>>
  <2>1. tasks' = [g \in Handlers |-> IF g \in {h} THEN Idle ELSE Stale(tasks[g])]
    BY DEF Write, Written
  <2>2. {h} \in SUBSET Handlers /\ UNCHANGED <<table, saved>>
    BY DEF Write
  <2>3. QED
    BY <2>1, <2>2, AllStale
<1>8. commit' \in Commits /\ CommitInv'
  BY <1>7 DEF IInv, RecordInv, CommitInv, Commits, Write, Written
<1>9. RecordInv'
  BY <1>7, <1>8 DEF RecordInv, Tasks, Commits, AllValues, Seen, Inputs
<1>10. SavedInv'
  BY <1>4, <1>6, <1>7, SavedKept
<1>11. QED
  BY <1>6, <1>7, <1>8, <1>9, <1>10, TypePartsNext DEF IInv

LEMMA DeleteKeeps ==
  ASSUME IInv, NEW id \in Ids, Delete(id)
  PROVE  IInv'
<1>1. /\ rows' = [n \in DOMAIN rows \ {id} |-> rows[n]] /\ doubt' = doubt \ {id}
      /\ UNCHANGED <<table, config, next, tasks, commit, saved, writes>>
  BY DEF Delete
<1>2. DOMAIN rows' \subseteq DOMAIN rows /\ \A n \in DOMAIN rows' : rows'[n] = rows[n]
  BY <1>1
<1>3. TableTypes'
  BY <1>1, <1>2, TableTyped DEF TableTypes, RowsOK
<1>4. Separate(rows, doubt)' /\ Fitting(config, rows, doubt)'
  <2>1. Separate(rows', doubt') /\ Fitting(config, rows', doubt')
    BY <1>1, Removed, Bounds DEF IInv, Ids
  <2>2. QED
    BY <1>1, <2>1 DEF Separate, Fitting
<1>5. RecordInv' /\ CommitInv'
  BY <1>1 DEF IInv, RecordInv, CommitInv, Tasks, Commits, AllValues, Seen, Inputs
<1>6. ASSUME NEW u, Checked(u) PROVE Checked(u)'
  BY <1>1, <1>2, <1>6 DEF Checked, Collides
<1>7. TaskInv'
  BY <1>1, <1>6 DEF IInv, TaskInv
<1>8. SavedInv'
  BY <1>1, SavedKept, TableTyped, Bounds DEF TableTypes
<1>9. QED
  BY <1>3, <1>4, <1>5, <1>7, <1>8, TypePartsNext DEF IInv

LEMMA BeginCommitKeeps ==
  ASSUME IInv, BeginCommit
  PROVE  IInv'
<1>1. UNCHANGED <<table, config, rows, next, tasks, saved, doubt, writes>> /\ commit' = [at |-> "rows", seen |-> config, stale |-> FALSE]
  BY DEF BeginCommit, db
<1>2. TableTypes' /\ Separate(rows, doubt)' /\ Fitting(config, rows, doubt)'
  BY <1>1, TableTyped DEF IInv, TableTypes, Separate, Fitting, RowsOK
<1>3. RecordInv' /\ CommitInv'
  BY <1>1, TableTyped DEF IInv, RecordInv, CommitInv, Tasks, Commits, AllValues, Seen, Inputs, TableTypes
<1>4. ASSUME NEW u PROVE Checked(u)' <=> Checked(u)
  BY <1>1 DEF Checked, Collides
<1>5. TaskInv'
  BY <1>1, <1>4 DEF IInv, TaskInv
<1>6. SavedInv'
  BY <1>1, SavedKept, TableTyped, Bounds DEF TableTypes
<1>7. QED
  BY <1>2, <1>3, <1>5, <1>6, TypePartsNext DEF IInv

\* A snapshot is as good as the table; if the configuration was read too early, its rows are
\* all in doubt.
LEMMA CommitKeeps ==
  ASSUME IInv, Commit
  PROVE  IInv'
<1>1. UNCHANGED <<table, config, rows, next, tasks, doubt, writes>> /\ commit' = NotCommitting
  BY DEF Commit, db
<1>2. TableTypes' /\ Separate(rows, doubt)' /\ Fitting(config, rows, doubt)'
  BY <1>1, TableTyped DEF IInv, TableTypes, Separate, Fitting, RowsOK
<1>3. RecordInv' /\ CommitInv'
  BY <1>1, IdleTyped DEF IInv, RecordInv, CommitInv, Tasks, Commits, AllValues, Seen, Inputs
<1>4. ASSUME NEW u PROVE Checked(u)' <=> Checked(u)
  BY <1>1 DEF Checked, Collides
<1>5. TaskInv'
  BY <1>1, <1>4 DEF IInv, TaskInv
<1>6. SavedInv'
  <2>1. CASE saved' = saved
    BY <1>1, <2>1, SavedKept, TableTyped, Bounds DEF TableTypes
  <2>2. CASE saved' # saved
    <3> DEFINE d == IF commit.stale THEN {0} \union DOMAIN rows ELSE doubt
    <3>1. saved' = [config |-> commit.seen, rows |-> rows, doubt |-> d] /\ commit.at = "rows"
      BY <2>2 DEF Commit
    <3>2. saved'.config = commit.seen /\ saved'.rows = rows /\ saved'.doubt = d
      BY <3>1
    <3>3. commit.seen \in Configs(table) /\ (~commit.stale => commit.seen = config)
      BY <3>1 DEF IInv, CommitInv
    <3>4. RowsOK(rows) /\ d \subseteq 0..MaxId /\ \A n \in DOMAIN rows : n < next
      BY TableTyped, Bounds DEF TableTypes, RowsOK, Ids
    <3>5. Separate(rows, d)
      BY DEF IInv, Separate
    <3>6. Fitting(commit.seen, rows, d)
      BY <3>3 DEF IInv, Fitting
    <3> HIDE DEF d
    <3>7. RowsOK(saved.rows)' /\ Separate(saved.rows, saved.doubt)' /\ Fitting(saved.config, saved.rows, saved.doubt)'
      BY <1>1, <3>2, <3>4, <3>5, <3>6 DEF RowsOK, Separate, Fitting
    <3>8. QED
      BY <1>1, <3>2, <3>3, <3>4, <3>7 DEF SavedInv
  <2>3. QED
    BY <2>1, <2>2
<1>7. QED
  BY <1>2, <1>3, <1>5, <1>6, TypePartsNext DEF IInv


\* The snapshot comes back, and whoever was at work is stale.
LEMMA RollbackKeeps ==
  ASSUME IInv, Rollback
  PROVE  IInv'
<1>1. /\ config' = saved.config /\ rows' = saved.rows /\ doubt' = saved.doubt /\ commit.at = "idle"
      /\ UNCHANGED <<table, next, commit, saved, writes>> /\ saved # NoSnapshot
  BY DEF Rollback
<1>2. /\ saved.config \in Configs(table) /\ RowsOK(saved.rows) /\ saved.doubt \subseteq 0..MaxId
      /\ \A n \in DOMAIN saved.rows : n < next
      /\ Separate(saved.rows, saved.doubt) /\ Fitting(saved.config, saved.rows, saved.doubt)
  BY <1>1 DEF IInv, SavedInv
<1>3. TableTypes'
  BY <1>1, <1>2, TableTyped DEF TableTypes, RowsOK
<1>4. Separate(rows, doubt)' /\ Fitting(config, rows, doubt)'
  BY <1>1, <1>2 DEF Separate, Fitting
<1>5. tasks' \in [Handlers -> Tasks] /\ TaskInv'
  <2>1. tasks' = [g \in Handlers |-> IF g \in {} THEN Idle ELSE Stale(tasks[g])]
    BY DEF Rollback
  <2>2. {} \in SUBSET Handlers /\ UNCHANGED table
    BY <1>1
  <2>3. QED
    BY <2>1, <2>2, AllStale
<1>6. RecordInv' /\ CommitInv'
  BY <1>1, <1>5 DEF IInv, RecordInv, CommitInv, Tasks, Commits, AllValues, Seen, Inputs
<1>7. SavedInv'
  BY <1>1, SavedKept, TableTyped, Bounds DEF TableTypes
<1>8. QED
  BY <1>3, <1>4, <1>5, <1>6, <1>7, TypePartsNext DEF IInv

LEMMA InvKept == IInv /\ [Next]_vars => IInv'
<1> SUFFICES ASSUME IInv, [Next]_vars PROVE IInv'
  OBVIOUS
<1>1. CASE UNCHANGED vars
  <2>1. UNCHANGED <<table, config, rows, next, tasks, commit, saved, doubt, writes>>
    BY <1>1 DEF vars, db
  <2>2. TableTypes' /\ Separate(rows, doubt)' /\ Fitting(config, rows, doubt)'
    BY <2>1, TableTyped DEF IInv, TableTypes, Separate, Fitting, RowsOK
  <2>3. RecordInv' /\ CommitInv'
    BY <2>1 DEF IInv, RecordInv, CommitInv, Tasks, Commits, AllValues, Seen, Inputs
  <2>4. ASSUME NEW u PROVE Checked(u)' <=> Checked(u)
    BY <2>1 DEF Checked, Collides
  <2>5. TaskInv'
    BY <2>1, <2>4 DEF IInv, TaskInv
  <2>6. SavedInv'
    BY <2>1, SavedKept, TableTyped, Bounds DEF TableTypes
  <2>7. QED
    BY <2>2, <2>3, <2>5, <2>6, TypePartsNext DEF IInv
<1>2. ASSUME NEW h \in Handlers, Add(h) \/ Update(h) \/ SetConfig(h) PROVE IInv'
  <2>1. 0 \in 0..MaxId /\ 1..(next - 1) \subseteq 0..MaxId
    BY TableTyped, Bounds DEF TableTypes
  <2>2. CASE Add(h)
    BY <2>1, <2>2, ReadRowsKeeps DEF Add
  <2>3. CASE Update(h)
    BY <2>1, <2>3, ReadRowsKeeps DEF Update
  <2>4. CASE SetConfig(h)
    BY <2>1, <2>4, ReadRowsKeeps DEF SetConfig
  <2>5. QED
    BY <1>2, <2>2, <2>3, <2>4
<1>3. CASE Next
  BY <1>2, <1>3, ReadConfigKeeps, WriteKeeps, WriteFailsKeeps, DeleteKeeps, BeginCommitKeeps, CommitKeeps,
     RollbackKeeps DEF Next
<1>4. QED
  BY <1>1, <1>3

LEMMA InvHolds == Spec => []IInv
<1>1. Init => IInv
  <2> SUFFICES ASSUME Init PROVE IInv
    OBVIOUS
  <2>1. TableTypes
    BY Bounds DEF Init, TableTypes, RowsOK
  <2>2. RecordInv /\ TaskInv /\ CommitInv
    BY IdleTyped DEF Init, RecordInv, TaskInv, CommitInv
  <2>3. SavedInv /\ Separate(rows, doubt) /\ Fitting(config, rows, doubt)
    BY DEF Init, SavedInv, Separate, Fitting
  <2>4. QED
    BY <2>1, <2>2, <2>3, TypeParts DEF IInv
<1>2. QED
  BY <1>1, InvKept, PTL DEF Spec

\* Every row, configuration and snapshot is one that the services accept by itself, and an
\* id is never given out twice.
THEOREM TypeCorrect == Spec => []TypeOK
<1>1. IInv => TypeOK
  BY DEF IInv
<1>2. QED
  BY <1>1, InvHolds, PTL

\* "so re-enabling one later can never create a hidden collision": for any number of
\* handlers, of which any may have checked against what is no longer there.
THEOREM NoHiddenCollisionHolds == Spec => []NoHiddenCollision
<1>1. IInv => NoHiddenCollision
  BY DEF IInv, Separate, NoHiddenCollision
<1>2. QED
  BY <1>1, InvHolds, PTL

\* Reservations stay in the subnet and peers off the server's address, through edits of both
\* and rollbacks, unless a check was out of date (set_config and prepare_peer).
THEOREM RowsFitConfigHolds == Spec => []RowsFitConfig
<1>1. IInv => RowsFitConfig
  BY DEF IInv, Fitting, RowsFitConfig
<1>2. QED
  BY <1>1, InvHolds, PTL

-----------------------------------------------------------------------------
(* What the generators write. *)

\* The ids up to one, and the peers that the generator has taken when it has got there.
UpTo(k, r) == {n \in DOMAIN r : n <= k}
TakenUpTo(k, S, c, r) ==
  /\ S \subseteq UpTo(k, r)
  /\ \A n \in UpTo(k, r) : n \in S <=> Takes(n, S, c, r)

\* It gets from one id to the next: the new one is taken or not, and the earlier ones stay as they are.
LEMMA TakenNext ==
  ASSUME NEW c, NEW r, DOMAIN r \subseteq Nat, NEW k \in Nat, NEW S, TakenUpTo(k, S, c, r)
  PROVE  \E T : TakenUpTo(k + 1, T, c, r)
<1> DEFINE T == {n \in UpTo(k + 1, r) : n \in S \/ (n = k + 1 /\ Takes(n, S, c, r))}
<1>1. S \subseteq T /\ T \subseteq UpTo(k + 1, r) /\ T \subseteq S \union {k + 1} /\ \A n \in S : n \in Nat /\ n <= k
  BY DEF TakenUpTo, UpTo
<1>2. \A n \in UpTo(k + 1, r) : \A m \in T : m < n => m \in S
  BY <1>1 DEF UpTo
<1>3. \A n \in UpTo(k + 1, r) : Takes(n, T, c, r) <=> Takes(n, S, c, r)
  BY <1>1, <1>2 DEF Takes
<1>4. ASSUME NEW n \in UpTo(k + 1, r) PROVE n \in T <=> Takes(n, S, c, r)
  <2>1. CASE n = k + 1
    <3>1. n \notin S
      BY <1>1, <2>1
    <3>2. QED
      BY <2>1, <3>1
  <2>2. CASE n # k + 1
    <3>1. n \in UpTo(k, r)
      BY <2>2 DEF UpTo
    <3>2. QED
      BY <2>2, <3>1 DEF TakenUpTo
  <2>3. QED
    BY <2>1, <2>2
<1>5. QED
  BY <1>1, <1>3, <1>4 DEF TakenUpTo

\* So it gets to any id: a smallest one that it does not get to would follow one that it gets to.
LEMMA TakenEver ==
  ASSUME NEW c, NEW r, DOMAIN r \subseteq Nat \ {0}, NEW k \in Nat
  PROVE  \E S : TakenUpTo(k, S, c, r)
<1> DEFINE Missed == {i \in Nat : ~\E S : TakenUpTo(i, S, c, r)}
<1> SUFFICES ASSUME Missed # {} PROVE FALSE
  OBVIOUS
<1>1. PICK i \in Missed : \A j \in Missed : ~(<<j, i>> \in OpToRel(<, Nat))
  <2>1. Missed \subseteq Nat
    OBVIOUS
  <2> HIDE DEF Missed
  <2>2. QED
    BY <2>1, NatLessThanWellFounded, WFMin
<1>2. i # 0
  <2>1. TakenUpTo(0, {}, c, r)
    BY DEF TakenUpTo, UpTo
  <2>2. QED
    BY <2>1
<1>3. i - 1 \in Nat /\ i - 1 < i
  BY <1>2
<1>4. <<i - 1, i>> \in OpToRel(<, Nat)
  BY <1>3 DEF OpToRel
<1>5. PICK S : TakenUpTo(i - 1, S, c, r)
  BY <1>1, <1>3, <1>4
<1>6. \E T : TakenUpTo((i - 1) + 1, T, c, r)
  BY <1>3, <1>5, TakenNext
<1>7. QED
  BY <1>3, <1>6

\* The set of peers that are written is as the generator says.
LEMMA ServedPeersAre ==
  ASSUME NEW c, NEW r, DOMAIN r \subseteq Ids
  PROVE  /\ ServedPeers(c, r) \subseteq DOMAIN r
         /\ \A n \in DOMAIN r : n \in ServedPeers(c, r) <=> Takes(n, ServedPeers(c, r), c, r)
<1>1. DOMAIN r \subseteq Nat \ {0} /\ UpTo(MaxId, r) = DOMAIN r
  BY Bounds DEF Ids, UpTo
<1>2. PICK S : TakenUpTo(MaxId, S, c, r)
  BY <1>1, TakenEver, Bounds
<1>3. S \in SUBSET DOMAIN r /\ \A n \in DOMAIN r : n \in S <=> Takes(n, S, c, r)
  BY <1>1, <1>2 DEF TakenUpTo
<1>4. QED
  BY <1>3 DEF ServedPeers

\* There is only one such set: two would first differ at an id before which they agree.
LEMMA ServedPeersOnly ==
  ASSUME NEW c, NEW r, DOMAIN r \subseteq Ids, NEW S \in SUBSET DOMAIN r,
         \A n \in DOMAIN r : n \in S <=> Takes(n, S, c, r)
  PROVE  S = ServedPeers(c, r)
<1> DEFINE T == ServedPeers(c, r)
           Differ == {n \in DOMAIN r : ~(n \in S <=> n \in T)}
<1>1. T \subseteq DOMAIN r /\ \A n \in DOMAIN r : n \in T <=> Takes(n, T, c, r)
  BY ServedPeersAre
<1>2. DOMAIN r \subseteq Nat
  BY Bounds DEF Ids
<1> HIDE DEF T
<1>3. CASE Differ # {}
  <2>1. PICK n \in Differ : \A m \in Differ : ~(<<m, n>> \in OpToRel(<, Nat))
    <3>1. Differ \subseteq Nat
      BY <1>2
    <3> HIDE DEF Differ
    <3>2. QED
      BY <1>3, <3>1, NatLessThanWellFounded, WFMin
  <2>2. ASSUME NEW m \in DOMAIN r, m < n PROVE m \in S <=> m \in T
    <3>1. <<m, n>> \in OpToRel(<, Nat)
      BY <1>2, <2>2 DEF OpToRel
    <3>2. QED
      BY <2>1, <3>1
  <2>3. Takes(n, S, c, r) <=> Takes(n, T, c, r)
    BY <1>1, <2>2 DEF Takes
  <2>4. QED
    BY <1>1, <2>3
<1>4. CASE Differ = {}
  <2>1. \A n \in DOMAIN r : n \in S <=> n \in T
    BY <1>4
  <2>2. S = T
    BY <1>1, <2>1
  <2>3. QED
    BY <2>2 DEF T
<1>5. QED
  BY <1>3, <1>4

\* The peers that are written have keys and networks of their own and stay off the server's
\* address, whatever is in the table (WireguardGenerator).
LEMMA ServedApart ==
  ASSUME IInv, table = "peer", NEW n \in ServedPeers(config, rows)
  PROVE  /\ n \in DOMAIN rows /\ config.server \notin rows[n].nets
         /\ \A m \in ServedPeers(config, rows) \ {n} :
              rows[n].key # rows[m].key /\ rows[n].nets \intersect rows[m].nets = {}
<1> DEFINE served == ServedPeers(config, rows)
<1>1. DOMAIN rows \subseteq Ids /\ Ids \subseteq Nat
  BY DEF IInv, TypeOK, RowsOK, Ids
<1>2. served \subseteq DOMAIN rows /\ \A m \in served : Takes(m, served, config, rows)
  BY <1>1, ServedPeersAre
<1> HIDE DEF served
<1>3. n \in DOMAIN rows /\ config.server \notin rows[n].nets
  BY <1>2 DEF served, Takes, OffServer
<1>4. ASSUME NEW m \in served \ {n} PROVE rows[n].key # rows[m].key /\ rows[n].nets \intersect rows[m].nets = {}
  <2>1. n \in served /\ (m < n \/ n < m)
    <3>1. n \in served
      BY DEF served
    <3>2. n \in Nat /\ m \in Nat /\ n # m
      BY <1>1, <1>2, <3>1
    <3>3. QED
      BY <3>1, <3>2
  <2>2. Takes(n, served, config, rows) /\ Takes(m, served, config, rows)
    BY <1>2, <2>1
  <2>3. QED
    BY <2>1, <2>2 DEF Takes, NetworksOverlap
<1>5. QED
  BY <1>3, <1>4 DEF served

\* Of two routes to one network with one metric the generator writes one (RouteGenerator).
LEMMA ServedRoutesApart ==
  ASSUME IInv, NEW n \in ServedRoutes(rows), NEW m \in ServedRoutes(rows), n # m
  PROVE  ~SameRoute(rows[n], rows[m])
<1>1. n \in DOMAIN rows /\ m \in DOMAIN rows /\ n \in Nat /\ m \in Nat
  BY DEF IInv, TypeOK, RowsOK, Ids, ServedRoutes
<1>2. n < m \/ m < n
  BY <1>1
<1>3. n < m => ~SameRoute(rows[n], rows[m])
  BY <1>1 DEF ServedRoutes
<1>4. m < n => ~SameRoute(rows[m], rows[n])
  BY <1>1 DEF ServedRoutes
<1>5. QED
  BY <1>2, <1>3, <1>4 DEF SameRoute

\* A route that is left out has a first one to the same network with its metric, which is
\* written.
LEMMA FirstServed ==
  ASSUME IInv, NEW n \in DOMAIN rows
  PROVE  \E m \in ServedRoutes(rows) : SameRoute(rows[m], rows[n])
<1> DEFINE Same == {m \in DOMAIN rows : SameRoute(rows[m], rows[n])}
<1>1. DOMAIN rows \subseteq Nat
  BY DEF IInv, TypeOK, RowsOK, Ids
<1>2. n \in Same
  BY DEF SameRoute
<1>3. PICK m \in Same : \A k \in Same : ~(<<k, m>> \in OpToRel(<, Nat))
  <2>1. Same \subseteq Nat /\ Same # {}
    BY <1>1, <1>2
  <2> HIDE DEF Same
  <2>2. QED
    BY <2>1, NatLessThanWellFounded, WFMin
<1>4. ASSUME NEW k \in DOMAIN rows, k < m PROVE ~SameRoute(rows[k], rows[m])
  <2>1. <<k, m>> \in OpToRel(<, Nat)
    BY <1>1, <1>3, <1>4 DEF OpToRel
  <2>2. k \notin Same
    BY <1>3, <2>1
  <2>3. QED
    BY <1>3, <2>2 DEF SameRoute
<1>5. m \in ServedRoutes(rows)
  BY <1>3, <1>4 DEF ServedRoutes
<1>6. QED
  BY <1>3, <1>5

\* If no check was out of date, nothing is left out but a route whose network is written twice.
LEMMA NothingLeftOut ==
  ASSUME IInv, doubt = {}
  PROVE  \A n \in DOMAIN rows \ Served(table, config, rows) : WrittenTwice(n, Served(table, config, rows))
<1>1. \A n \in DOMAIN rows : Fits(table, rows[n], config)
  BY DEF IInv, Fitting
<1>2. \A n, m \in DOMAIN rows : n # m => ~Collide(table, rows[n], rows[m])
  BY DEF IInv, Separate
<1>3. CASE table = "reservation"
  BY <1>1, <1>3 DEF Served, ServedReservations, Fits
<1>4. CASE table = "peer"
  <2>1. DOMAIN rows \subseteq Ids /\ Ids \subseteq Nat
    BY DEF IInv, TypeOK, RowsOK, Ids
  <2>2. ServedPeers(config, rows) \subseteq DOMAIN rows
        /\ \A n \in DOMAIN rows : n \in ServedPeers(config, rows) <=> Takes(n, ServedPeers(config, rows), config, rows)
    BY <2>1, ServedPeersAre
  <2>3. ASSUME NEW n \in DOMAIN rows PROVE Takes(n, ServedPeers(config, rows), config, rows)
    <3>1. OffServer(rows[n], config)
      BY <1>1, <1>4 DEF Fits
    <3>2. ASSUME NEW m \in ServedPeers(config, rows), m < n
          PROVE  rows[m].key # rows[n].key /\ ~NetworksOverlap(rows[m], rows[n])
      <4>1. m \in DOMAIN rows /\ m # n
        <5>1. m \in DOMAIN rows
          BY <2>2, <3>2
        <5>2. m \in Nat /\ n \in Nat
          BY <2>1, <5>1
        <5>3. QED
          BY <3>2, <5>1, <5>2
      <4>2. QED
        BY <1>2, <1>4, <4>1 DEF Collide, PeersClash
    <3>3. QED
      BY <3>1, <3>2 DEF Takes
  <2>4. QED
    BY <1>4, <2>2, <2>3 DEF Served
<1>5. CASE table = "route"
  <2>1. Served(table, config, rows) = ServedRoutes(rows)
    BY <1>5 DEF Served
  <2> SUFFICES ASSUME NEW n \in DOMAIN rows \ ServedRoutes(rows)
               PROVE  WrittenTwice(n, ServedRoutes(rows))
    BY <2>1
  <2>2. PICK m \in ServedRoutes(rows) : SameRoute(rows[m], rows[n])
    BY FirstServed
  <2>3. m \in DOMAIN rows /\ m # n
    BY <2>2 DEF ServedRoutes
  <2>4. rows[m] # rows[n]
    BY <1>2, <1>5, <2>3 DEF Collide
  <2>5. rows[n] \in Routes /\ rows[m] \in Routes
    BY <1>5, <2>3 DEF IInv, TypeOK, RowsOK, Values
  <2>6. rows[m].spelling # rows[n].spelling
    BY <2>2, <2>4, <2>5 DEF Routes, SameRoute
  <2>7. QED
    BY <1>5, <2>2, <2>6 DEF WrittenTwice
<1>6. CASE table \notin {"reservation", "peer", "route"}
  BY <1>6 DEF Served
<1>7. QED
  BY <1>3, <1>4, <1>5, <1>6

\* The generators never write peers or routes that collide, out of date or not, and leave out
\* nothing that was accepted on checks that were up to date, save a second spelling of a
\* network (DhcpGenerator, WireguardGenerator, RouteGenerator).
THEOREM ServedIsAcceptedHolds == Spec => []ServedIsAccepted
<1>1. IInv => ServedIsAccepted
  <2> SUFFICES ASSUME IInv PROVE ServedIsAccepted
    OBVIOUS
  <2>1. table = "peer" => Served(table, config, rows) = ServedPeers(config, rows)
    BY DEF Served
  <2>2. table = "route" => Served(table, config, rows) = ServedRoutes(rows)
    BY DEF Served
  <2>3. QED
    BY <2>1, <2>2, ServedApart, ServedRoutesApart, NothingLeftOut DEF ServedIsAccepted
<1>2. QED
  BY <1>1, InvHolds, PTL

===============================================================================
