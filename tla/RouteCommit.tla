----------------------------- MODULE RouteCommit -----------------------------
(***************************************************************************)
(* The commit, rollback and boot of static routes (routing/commit.rs).  The *)
(* kernel's routes are changed line by line by `ip -batch'; without -force *)
(* it stops at the first line that fails, with -force it goes on.          *)
(*                                                                         *)
(* A table, a snapshot or the kernel is a function from keys (destination  *)
(* and metric) to hops (gateway and interface): what RouteGenerator keeps   *)
(* of a list after dropping disabled, invalid and duplicate entries.       *)
(*                                                                         *)
(* commit_lock lets one operation run at a time: `op' is at `at'.  A       *)
(* handler that is dropped releases it, but ip runs on: the orphan.        *)
(***************************************************************************)
EXTENDS Naturals

CONSTANTS
  Keys,         \* destinations with their metrics
  Hops,         \* where they lead
  NoHop,        \* no route
  Absent,       \* no such file
  Torn,         \* a file cut short
  MaxEdits,     \* bound: edits of the database
  MaxFaults,    \* bound: errors of files and of the database, and failing `ip'
  MaxDrops,     \* bound: clients that disconnect
  MaxRestarts   \* bound: crashes

Routes == [Keys -> Hops \union {NoHop}]

ASSUME RouteAssumption ==
  /\ NoHop \notin Hops
  /\ Absent # Torn /\ {Absent, Torn} \cap Routes = {}
  /\ {MaxEdits, MaxFaults, MaxDrops, MaxRestarts} \subseteq Nat

VARIABLES
  db,                 \* the routes table
  kernel,             \* routes of protocol 250
  current, previous,  \* current.routes.json, previous.routes.json
  op, at, n,          \* the operation that holds commit_lock, or the last one, and its place
  desired, prior,     \* its locals: the routes to install, and those of the snapshot they replace
  batch,              \* the lines that ip has not run yet
  failed,             \* a line failed
  orphan, forced,     \* the lines of an ip whose handler was dropped, and whether it has -force
  outcome,            \* what the operation returned
  edits, faults, drops, restarts,
  before, synced,     \* history: the kernel when the operation began, and whether current.* had it
  alone,              \* history: there was no orphan then
  edited              \* history: the table was edited since the operation read it

disk == <<current, previous>>
place == <<op, at, n>>
locals == <<desired, prior>>
lines == <<batch, failed>>
orphans == <<orphan, forced>>
counts == <<edits, faults, drops, restarts>>
history == <<before, synced, alone, edited>>
vars == <<db, kernel, disk, place, locals, lines, orphans, outcome, counts, history>>

Lines == Keys \X (Hops \union {NoHop})
NoRoutes == [k \in Keys |-> NoHop]
Points == {"idle", "check", "apply", "revert", "cleanup", "remove", "save", "sync", "resave", "boot"}

TypeOK ==
  /\ db \in Routes /\ kernel \in Routes
  /\ current \in Routes \union {Absent} /\ previous \in Routes \union {Absent, Torn}
  /\ op \in {"commit", "rollback", "boot"} /\ at \in Points /\ n \in 1..2
  /\ desired \in Routes /\ prior \in Routes
  /\ batch \subseteq Lines /\ failed \in BOOLEAN
  /\ orphan \subseteq Lines /\ forced \in BOOLEAN
  /\ outcome \in {"none", "ok", "warned", "restored", "unchanged", "broken", "err"}
  /\ edits \in 0..MaxEdits /\ faults \in 0..MaxFaults
  /\ drops \in 0..MaxDrops /\ restarts \in 0..MaxRestarts
  /\ before \in Routes /\ synced \in BOOLEAN /\ alone \in BOOLEAN /\ edited \in BOOLEAN

Init ==
  /\ db = NoRoutes /\ kernel = NoRoutes
  /\ current = Absent /\ previous = Absent
  /\ op = "commit" /\ at = "idle" /\ n = 1
  /\ desired = NoRoutes /\ prior = NoRoutes
  /\ batch = {} /\ failed = FALSE
  /\ orphan = {} /\ forced = FALSE
  /\ outcome = "none"
  /\ edits = 0 /\ faults = 0 /\ drops = 0 /\ restarts = 0
  /\ before = NoRoutes /\ synced = TRUE /\ alone = TRUE /\ edited = FALSE

\* read_snapshot: a file that does not exist is an empty list.
Snapshot(file) == IF file = Absent THEN NoRoutes ELSE file

\* Mutant of Removals: compares whole routes and not their keys.
RemovalsOfChanged(old, new) == {<<k, NoHop>> : k \in {k \in Keys : old[k] # NoHop /\ new[k] # old[k]}}

\* RouteGenerator::render and render_removals: what to have, and what to have no more.
Adds(routes) == {<<k, routes[k]>> : k \in {k \in Keys : routes[k] # NoHop}}
Removals(old, new) == {<<k, NoHop>> : k \in {k \in Keys : old[k] # NoHop /\ new[k] = NoHop}}

Fault == faults < MaxFaults /\ faults' = faults + 1 /\ UNCHANGED <<edits, drops, restarts>>
Goto(p) == at' = p /\ n' = 1 /\ UNCHANGED op
Run(p, script) == Goto(p) /\ batch' = script /\ failed' = FALSE
Return(result) ==
  /\ Goto("idle") /\ outcome' = result
  /\ desired' = NoRoutes /\ prior' = NoRoutes /\ batch' = {} /\ failed' = FALSE

Edit(routes) ==
  /\ edits < MaxEdits /\ edits' = edits + 1
  /\ routes # db /\ db' = routes
  /\ edited' = TRUE
  /\ UNCHANGED <<kernel, disk, place, locals, lines, orphans, outcome, faults, drops, restarts, before, synced, alone>>

-----------------------------------------------------------------------------
(* An operation begins: it takes commit_lock and reads the lists. *)

Begin(o, new) ==
  /\ at = "idle" /\ at' = "check" /\ n' = 1 /\ op' = o
  /\ desired' = new /\ prior' = Snapshot(current)
  /\ before' = kernel /\ synced' = (kernel = Snapshot(current)) /\ alone' = (orphan = {})
  /\ edited' = FALSE
  /\ outcome' = "none"
  /\ UNCHANGED <<db, kernel, disk, lines, orphans, counts>>

BeginCommit == Begin("commit", db)
BeginRollback == previous \in Routes /\ Begin("rollback", previous)

\* A missing interface, an unreadable snapshot, or an error of the database.
Refuse ==
  /\ at = "check"
  /\ Return("unchanged")
  /\ UNCHANGED <<db, kernel, disk, orphans, counts, history>>

Apply ==
  /\ at = "check"
  /\ Run("apply", Adds(desired))
  /\ UNCHANGED <<db, kernel, disk, locals, orphans, outcome, counts, history>>

-----------------------------------------------------------------------------
(* ip -batch, line by line. *)

Does(line) == kernel' = [kernel EXCEPT ![line[1]] = line[2]]

\* `route del' of a route that is not there is an error.
Possible(line) == line[2] # NoHop \/ kernel[line[1]] # NoHop

Batches == {"apply", "revert", "cleanup", "remove", "boot"}

RunLine(line) ==
  /\ at \in Batches
  /\ Possible(line) /\ Does(line)
  /\ batch' = batch \ {line}
  /\ UNCHANGED <<db, disk, place, locals, failed, orphans, outcome, counts, history>>

\* A gateway that cannot be reached, a route that is gone, or an error of the kernel:
\* only the first batch of an operation stops for it, and is undone.
LineFails(line) ==
  /\ IF line[2] = NoHop /\ Possible(line) THEN Fault ELSE UNCHANGED counts
  /\ IF at = "apply"
     THEN Run("revert", Adds(prior))
     ELSE at \in Batches /\ batch' = batch \ {line} /\ failed' = TRUE /\ UNCHANGED place
  /\ UNCHANGED <<db, kernel, disk, locals, orphans, outcome, history>>

\* "Could not run ip": the first time the operation ends, later it is a failure like
\* another.  A script that cannot be written is the latter, and fails like the first line.
CannotRun ==
  /\ at \in Batches /\ batch # {}
  /\ Fault
  /\ IF at = "apply"
     THEN (batch = Adds(desired)) /\ Return("unchanged")
     ELSE batch' = {} /\ failed' = TRUE /\ UNCHANGED <<place, locals, outcome>>
  /\ UNCHANGED <<db, kernel, disk, orphans, history>>

Applied ==
  /\ at = "apply" /\ batch = {}
  /\ Run("remove", Removals(prior, desired))
  /\ UNCHANGED <<db, kernel, disk, locals, orphans, outcome, counts, history>>

\* Routes that could not be removed are a warning.
Removed ==
  /\ at = "remove" /\ batch = {}
  /\ Goto(IF op = "commit" THEN "save" ELSE "sync")
  /\ UNCHANGED <<db, kernel, disk, locals, lines, orphans, outcome, counts, history>>

\* Mutant of Reverted: the old routes are set, the new ones stay.
RevertedWithoutCleanup ==
  /\ at = "revert" /\ batch = {}
  /\ Return(IF failed THEN "broken" ELSE "restored")
  /\ UNCHANGED <<db, kernel, disk, orphans, counts, history>>

\* revert gives up when the old routes could not all be set, and leaves the new ones.
Reverted ==
  /\ at = "revert" /\ batch = {}
  /\ IF failed THEN Return("broken") ELSE Run("cleanup", Removals(desired, prior)) /\ UNCHANGED <<locals, outcome>>
  /\ UNCHANGED <<db, kernel, disk, orphans, counts, history>>

\* Not all new routes were there to be removed: errors are ignored.
CleanedUp ==
  /\ at = "cleanup" /\ batch = {}
  /\ Return("restored")
  /\ UNCHANGED <<db, kernel, disk, orphans, counts, history>>

-----------------------------------------------------------------------------
(* The files and the table. *)

\* The message carries a warning.
Success == IF failed THEN "warned" ELSE "ok"

Advance == at' = at /\ n' = n + 1 /\ UNCHANGED <<op, locals, lines, outcome>>

\* A commit: current.* to previous.*, or an empty list, then the new list to current.*.
SaveFile ==
  /\ at = "save"
  /\ IF n = 1
     THEN previous' = Snapshot(current) /\ UNCHANGED current /\ Advance
     ELSE current' = desired /\ UNCHANGED previous /\ Return(Success)
  /\ UNCHANGED <<db, kernel, orphans, counts, history>>

\* A rollback: replace_all_routes, one transaction, then the list to current.*.
Sync ==
  /\ at = "sync"
  /\ db' = desired /\ edited' = FALSE
  /\ Goto("resave")
  /\ UNCHANGED <<kernel, disk, locals, lines, orphans, outcome, counts, before, synced, alone>>

Resave ==
  /\ at = "resave"
  /\ current' = desired
  /\ Return(Success)
  /\ UNCHANGED <<db, kernel, previous, orphans, counts, history>>

\* previous.* is copied in place and may be cut short, current.* is renamed.
Interrupted ==
  IF at = "save" /\ n = 1 /\ current # Absent THEN previous' \in {previous, Torn} /\ UNCHANGED current ELSE UNCHANGED disk

StoreFails ==
  /\ at \in {"save", "sync", "resave"}
  /\ Fault
  /\ Interrupted
  /\ Return("err")
  /\ UNCHANGED <<db, kernel, orphans, history>>

-----------------------------------------------------------------------------
(* Dropped handlers, crashes and boot. *)

\* The client goes away while the handler waits for the database or for ip, or after the
\* transaction it waited for; an ip that was started goes on.
Cancel ==
  /\ drops < MaxDrops /\ drops' = drops + 1
  /\ at \in {"check", "sync", "resave"} \/ (at \in Batches \ {"boot"} /\ batch # {})
  /\ orphan = {} \/ batch = {}   \* one orphan at a time
  /\ orphan' = orphan \union batch /\ forced' = IF batch = {} THEN forced ELSE at # "apply"
  /\ Return("none")
  /\ UNCHANGED <<db, kernel, disk, edits, faults, restarts, history>>

OrphanLine(line) ==
  /\ \/ Possible(line) /\ Does(line) /\ orphan' = orphan \ {line}
     \/ UNCHANGED kernel /\ orphan' = IF forced THEN orphan \ {line} ELSE {}
  /\ UNCHANGED <<db, disk, place, locals, lines, forced, outcome, counts, history>>

\* A crash of the service, and ip with it, or of the machine, whose kernel then starts
\* without routes.
Crash ==
  /\ restarts < MaxRestarts /\ restarts' = restarts + 1
  /\ kernel' \in {kernel, NoRoutes}
  /\ Interrupted
  /\ op' = "boot" /\ at' = "boot" /\ n' = 1
  /\ desired' = Snapshot(current) /\ prior' = Snapshot(current)
  /\ batch' = Adds(Snapshot(current)) /\ failed' = FALSE
  /\ orphan' = {} /\ forced' = FALSE
  /\ before' = kernel' /\ synced' = (kernel' = Snapshot(current)) /\ alone' = TRUE /\ edited' = TRUE
  /\ outcome' = "none"
  /\ UNCHANGED <<db, edits, faults, drops>>

Booted ==
  /\ at = "boot" /\ batch = {}
  /\ Return(IF failed THEN "broken" ELSE "ok")
  /\ UNCHANGED <<db, kernel, disk, orphans, counts, history>>

Next ==
  \/ \E routes \in Routes : Edit(routes)
  \/ BeginCommit \/ BeginRollback \/ Refuse
  \/ Apply \/ Applied \/ Removed \/ Reverted \/ CleanedUp
  \/ \E line \in batch : RunLine(line) \/ LineFails(line)
  \/ CannotRun
  \/ SaveFile \/ Sync \/ Resave \/ StoreFails
  \/ Cancel \/ (\E line \in orphan : OrphanLine(line))
  \/ Crash \/ Booted

Spec == Init /\ [][Next]_vars
-----------------------------------------------------------------------------
(* Properties *)

Done(results) == at = "idle" /\ outcome \in results

\* After a success, with or without a warning, the kernel has every route of current.*,
\* whatever failed before, unless an ip that nobody waits for ran beside it.
SuccessIsLive ==
  Done({"ok", "warned"}) /\ alone =>
    current = Absent \/ \A k \in Keys : current[k] # NoHop => kernel[k] = current[k]

\* No route outlives the commit that dropped it: if current.* described the kernel when
\* an operation began, it does so after a success without a warning, after a failure that
\* says that nothing was changed, and, as long as routes can be removed, after one that
\* says that the old routes are back.
KernelIsCurrent ==
  Done({"ok", "restored", "unchanged"}) /\ synced /\ alone =>
    kernel = Snapshot(current) \/ (outcome = "restored" /\ faults > 0)

\* A commit's rollback goes back to what the kernel had before it.
UndoReachesLive ==
  Done({"ok", "warned"}) /\ op = "commit" /\ synced => previous = before

\* After a success the table holds what is live and saved, unless it was edited since.
TableIsCurrent ==
  Done({"ok", "warned"}) /\ ~edited => db = Snapshot(current)

\* "Applying routes failed, previous routes restored": no route of the attempt is left.
RestoredMeansRestored ==
  Done({"restored"}) /\ synced /\ alone => kernel = before
=============================================================================
